---- MODULE Spec2Model ----
(***************************************************************************)
(* Single-measurement-sweep (SME) workflows of the sample scripts:         *)
(*   sme_operation/sme_operation.py  (class SME)                           *)
(*   sme_for_mpm_215.py              (setup_laser .. get_data)             *)
(*   simple_sme.py                   (configure_tsl .. fetch_data)         *)
(* and the MPM object of mpm_instrument/mpm_instrument.py, called on its   *)
(* own.                                                                    *)
(* The laser (TSL) and the meter (MPM) are transports that record every    *)
(* write, query and read; the values the instruments answer are chosen     *)
(* nondeterministically.  Wavelengths are integers in an abstract unit.    *)
(***************************************************************************)
EXTENDS Integers, Sequences, FiniteSets, TLC

VARIABLES variant, cfg, pc, wire, polls, meter_stat, scan_status, status,
          count, expected_size, response, values, err,
          tools, tool, TSL, MPM, opened, caught,
          _power_mode_for_each_channel, call, calls

\* the resources on the bus, the handles opened on them and who holds them
handles == <<tools, tool, TSL, MPM, opened>>

\* the MPM object of mpm_instrument.py and the record of its last call
facade == <<_power_mode_for_each_channel, call, calls>>

vars == <<variant, cfg, pc, wire, polls, meter_stat, scan_status, status,
          count, expected_size, response, values, err, handles, caught,
          facade>>

----------------------------------------------------------------------------
(* Bounds *)

\* non-exiting iterations of one polling loop that are recorded in the logs
MaxPolls == 2
\* largest point count the meter reports / largest block it sends
MaxCount == 3
\* bytes that may follow the block in the meter's output stream
MaxExtra == 4
\* largest wavelength of a sweep configuration
MaxWavelength == 2

\* GPIB resources that initialize_instruments finds on the bus
MaxTools == 2
\* calls made on one MPM object
MaxCalls == 2

\* the three sweep workflows, and the MPM object used on its own
Workflows == {"sme_operation", "sme_for_mpm_215", "simple_sme"}
Variants == Workflows \cup {"mpm_instrument"}
Wavelengths == 1..MaxWavelength
Steps == {1}

\* answers of the instruments
PowStatAnswers == {0, 1}
OpcAnswers == {0, 1}
SweepAnswers == {3, 4}
StatAnswers == {-1, 0, 1}
StatCounts == {0, 10}
Modes == {"SWEEP1", "SWEEP2"}

----------------------------------------------------------------------------
(* Transport log entries *)

W(d, c, a) == [dev |-> d, op |-> "write", cmd |-> c, args |-> a, resp |-> <<>>]
Q(d, c, r) == [dev |-> d, op |-> "query", cmd |-> c, args |-> <<>>, resp |-> r]

\* laser (TSL) traffic
TW(c, a) == W("tsl", c, a)
TQ(c, r) == Q("tsl", c, r)

\* meter (MPM) traffic
MW(c, a) == W("mpm", c, a)
MQ(c, r) == Q("mpm", c, r)
MRB(n) == [dev |-> "mpm", op |-> "read_bytes", cmd |-> "", args |-> <<n>>,
           resp |-> <<>>]

Min(a, b) == IF a < b THEN a ELSE b

\* one more turn of a polling loop; the loops themselves have no bound
Tick(p) == Min(p + 1, MaxPolls)

\* traffic of a loop turn that stays in the loop: the first MaxPolls turns
\* are recorded, the turn that leaves the loop always is
Turn(log, entries) == IF polls < MaxPolls THEN log \o entries ELSE log

----------------------------------------------------------------------------
(* IEEE-488.2 block arithmetic *)

RECURSIVE Digits(_)
Digits(n) == IF n < 10 THEN <<n>> ELSE Digits(n \div 10) \o <<n % 10>>

\* int(math.log10(n)) for n >= 1
RECURSIVE IntLog10(_)
IntLog10(n) == IF n < 10 THEN 0 ELSE 1 + IntLog10(n \div 10)

\* '#', the number of length digits, the length digits, the payload
IEEEBlock(m) ==
    LET len == Digits(4 * m)
    IN  <<35, 48 + Len(len)>> \o [i \in 1..Len(len) |-> 48 + len[i]]
          \o [i \in 1..(4 * m) |-> 0]

\* block[a:b] of Python, 0-based and clipped
Slice(block, a, b) ==
    LET hi == Min(b, Len(block))
    IN  IF a >= hi THEN <<>> ELSE SubSeq(block, a + 1, hi)

IsDigits(s) == Len(s) > 0 /\ \A i \in 1..Len(s) : s[i] \in 48..57

RECURSIVE ParseInt(_)
ParseInt(s) ==
    IF Len(s) = 0 THEN 0
    ELSE 10 * ParseInt(SubSeq(s, 1, Len(s) - 1)) + (s[Len(s)] - 48)

\* block.find(b"#"), 0-based, -1 when absent
Find35(block) ==
    IF \E i \in 1..Len(block) : block[i] = 35
    THEN (CHOOSE i \in 1..Len(block) :
             block[i] = 35 /\ \A j \in 1..(i - 1) : block[j] # 35) - 1
    ELSE -1

\* util.from_ieee_block(block): the decoded 4-byte samples, or an error
from_ieee_block(block) ==
    LET begin == Find35(block)
        hd == Slice(block, begin + 1, begin + 2)
        header_length == IF IsDigits(hd) THEN ParseInt(hd) ELSE 0
        offset == begin + 2 + header_length
        ld == Slice(block, begin + 2, offset)
    IN  IF begin < 0 THEN [ok |-> FALSE, vals |-> <<>>]
        ELSE IF header_length > 0 /\ ~IsDigits(ld)
             THEN [ok |-> FALSE, vals |-> <<>>]
        ELSE LET data_length == IF header_length > 0 THEN ParseInt(ld)
                                ELSE Len(block) - offset
             IN  IF Len(block) < offset + data_length
                 THEN [ok |-> FALSE, vals |-> <<>>]
                 ELSE [ok |-> TRUE,
                       vals |-> [i \in 1..(data_length \div 4) |-> 0]]

\* count * 4 + (3 + int(math.log10(count)))
ExpectedSize215(c) == c * 4 + (3 + IntLog10(c))

\* first step of each script
Entry(v) == CASE v = "sme_operation" -> "SME_configure_tsl"
              [] v = "sme_for_mpm_215" -> "main"
              [] v = "simple_sme" -> "initialize_instruments"
              [] v = "mpm_instrument" -> "MPM"

\* what the meter answers to STAT?: a finished measurement stays finished
StatNow == IF meter_stat = 0 THEN StatAnswers ELSE {meter_stat}

\* the logging point that comes with a status
PointsFor(s) == IF s = 0 THEN {0} ELSE StatCounts

\* what a resource answers to *IDN?, that it cannot be opened ("error"), or
\* that it opens and leaves the *IDN? query without an answer ("silent")
ToolKinds == {"TSL", "MPM", "other", "error", "silent"}
ToolLists == UNION {[1..n -> ToolKinds] : n \in 0..MaxTools}

\* a handle variable that holds no instrument
None == 0

\* the meter handle an object is constructed with: SME(tsl, mpm) gets the
\* second resource, MPM(instance) the first, the scripts open theirs later
ConstructedMeter(v) == CASE v = "sme_operation" -> 2
                         [] v = "mpm_instrument" -> 1
                         [] OTHER -> None

\* the result of a call on the MPM object: kind is "None", "int", "values",
\* "bytes" or "pair"
Result(k, v) == [kind |-> k, val |-> v]

\* no call made yet
NoCall == [name |-> "", args |-> <<>>, sent |-> <<>>, recv |-> <<>>,
           raised |-> "none", result |-> Result("None", <<>>)]

\* the sweep that is used when something else than the sweep is varied:
\* the inputs are varied one at a time around it, not all at once
DefaultSweep(c) == c.start = 1 /\ c.stop = MaxWavelength

\* a sweep that ends where it starts
EmptySweep(c) == c.start = 1 /\ c.stop = 1

----------------------------------------------------------------------------
Init ==
    /\ variant \in Variants
    /\ cfg \in [start : Wavelengths, stop : Wavelengths, step : Steps,
                is_mpm_215 : BOOLEAN, display_logging_status : BOOLEAN]
    /\ (cfg.start = 1 \/ cfg.stop = 1)
    /\ (variant # "sme_operation" =>
            /\ cfg.is_mpm_215 = (variant = "sme_for_mpm_215")
            /\ cfg.display_logging_status = TRUE
            /\ (DefaultSweep(cfg) \/ EmptySweep(cfg)))
    /\ (variant = "sme_operation" /\ ~DefaultSweep(cfg) =>
            /\ cfg.is_mpm_215 = FALSE
            /\ cfg.display_logging_status = FALSE)
    /\ (variant = "mpm_instrument" => DefaultSweep(cfg))
    /\ tools \in (IF variant = "simple_sme" THEN ToolLists ELSE {<<>>})
    /\ (variant = "simple_sme" /\ tools # <<"TSL", "MPM">> => DefaultSweep(cfg))
    /\ pc = Entry(variant)
    /\ wire = <<>>
    /\ polls = 0
    /\ meter_stat = 1
    /\ scan_status = 0
    /\ status = 0
    /\ count = 0
    /\ expected_size = 0
    /\ response = <<>>
    /\ values = <<>>
    /\ err = "none"
    /\ tool = 1
    /\ TSL = (IF variant = "sme_operation" THEN 1 ELSE None)
    /\ MPM = ConstructedMeter(variant)
    /\ opened = ({TSL, MPM} \ {None})
    /\ caught = "none"
    /\ _power_mode_for_each_channel = <<>>
    /\ call = NoCall
    /\ calls = 0

----------------------------------------------------------------------------
(* sme_for_mpm_215.py *)

\* main lines 136-141: open_resource on the laser's address, then on the
\* meter's; either may fail, and what was opened before stays open
main_215 ==
    /\ pc = "main"
    /\ variant = "sme_for_mpm_215"
    /\ \/ /\ TSL' = 1 /\ MPM' = 2
          /\ opened' = {1, 2}
          /\ pc' = "setup_laser"
          /\ UNCHANGED err
       \/ /\ TSL' = 1 /\ MPM' = None
          /\ opened' = {1}
          /\ err' = "VisaIOError"
          /\ pc' = "raised"
       \/ /\ TSL' = None /\ MPM' = None
          /\ opened' = {}
          /\ err' = "VisaIOError"
          /\ pc' = "raised"
    /\ UNCHANGED <<tools, tool, facade, caught>>
    /\ UNCHANGED <<variant, cfg, wire, polls, meter_stat, scan_status,
                   status, count, expected_size, response, values>>

setup_laser_head ==
    << TW("*CLS", <<>>), TW("*RST", <<>>), TW("SYST:COMM:GPIB:DEL", <<0>>),
       TW("SYST:COMM:COD", <<0>>) >>

setup_laser_body(c) ==
    << TW("POW:UNIT", <<0>>), TW("WAV:UNIT", <<0>>), TW("POW:ATT:AUT", <<1>>),
       TW("POW:SHUT", <<0>>), TW("TRIG:OUTP", <<3>>), TW("TRIG:INP:EXT", <<0>>),
       TW("TRIG:INP:STAN", <<1>>), TW("WAV:SWE:MOD", <<1>>), TW("POW", <<>>),
       TW("WAV:SWE:STAR", <<c.start>>), TW("WAV:SWE:STOP", <<c.stop>>),
       TW("WAV:SWE:SPE", <<>>), TW("TRIG:OUTP:STEP", <<c.step>>),
       TW("TRIG:OUTP:SETT", <<>>), TW("TRIG:INP:ACT", <<0>>),
       TW("TRIG:OUTP:ACT", <<0>>) >>

\* lines 39-46: reset, then switch the output on when it is off
setup_laser ==
    /\ pc = "setup_laser"
    /\ \E r \in PowStatAnswers :
          /\ wire' = wire \o setup_laser_head \o << TQ("POW:STAT?", <<r>>) >>
                        \o (IF r = 0 THEN << TW("POW:STAT", <<1>>) >> ELSE <<>>)
          /\ pc' = IF r = 0 THEN "setup_laser_opc" ELSE "setup_laser_settings"
    /\ polls' = 0
    /\ UNCHANGED <<handles, facade, caught>>
    /\ UNCHANGED <<variant, cfg, meter_stat, scan_status, status, count,
                   expected_size, response, values, err>>

\* the loop left after its first poll, whatever *OPC? answered
setup_laser_opc_no_wait ==
    /\ pc = "setup_laser_opc"
    /\ \E r \in OpcAnswers : wire' = wire \o << TQ("*OPC?", <<r>>) >>
    /\ polls' = 0
    /\ pc' = "setup_laser_settings"
    /\ UNCHANGED <<handles, facade, caught>>
    /\ UNCHANGED <<variant, cfg, meter_stat, scan_status, status, count,
                   expected_size, response, values, err>>

\* lines 47-48: while tsl.query('*OPC?').strip() == '0': sleep
setup_laser_opc ==
    /\ pc = "setup_laser_opc"
    /\ \E r \in OpcAnswers :
          IF r = 0
          THEN /\ wire' = Turn(wire, << TQ("*OPC?", <<r>>) >>)
               /\ polls' = Tick(polls)
               /\ pc' = "setup_laser_opc_sleep"
          ELSE /\ wire' = wire \o << TQ("*OPC?", <<r>>) >>
               /\ polls' = 0
               /\ pc' = "setup_laser_settings"
    /\ UNCHANGED <<handles, facade, caught>>
    /\ UNCHANGED <<variant, cfg, meter_stat, scan_status, status, count,
                   expected_size, response, values, err>>

\* lines 51-70
setup_laser_settings ==
    /\ pc = "setup_laser_settings"
    /\ wire' = wire \o setup_laser_body(cfg)
    /\ pc' = "setup_meter"
    /\ UNCHANGED <<handles, facade, caught>>
    /\ UNCHANGED <<variant, cfg, polls, meter_stat, scan_status, status,
                   count, expected_size, response, values, err>>

setup_meter_head ==
    << MW("STOP", <<>>), MW("UNIT", <<0>>), MW("WMOD SWEEP2", <<>>) >>

setup_meter_body(c) ==
    << MW("TRIG", <<1>>), MW("WSET", <<c.start, c.stop, c.step>>),
       MW("SPE", <<>>), MW("WAV", <<c.start + c.stop, 2>>) >>

\* lines 75-78
setup_meter ==
    /\ pc = "setup_meter"
    /\ wire' = wire \o setup_meter_head
    /\ polls' = 0
    /\ pc' = "setup_meter_wmod"
    /\ UNCHANGED <<handles, facade, caught>>
    /\ UNCHANGED <<variant, cfg, meter_stat, scan_status, status, count,
                   expected_size, response, values, err>>

\* lines 79-82: repeat WMOD SWEEP2 until WMOD? answers it
setup_meter_wmod ==
    /\ pc = "setup_meter_wmod"
    /\ \E m \in Modes :
          IF m = "SWEEP2"
          THEN /\ wire' = wire \o << MQ("WMOD?", <<m>>) >>
               /\ polls' = 0
               /\ pc' = "setup_meter_settings"
          ELSE /\ wire' = Turn(wire, << MQ("WMOD?", <<m>>) >>)
               /\ polls' = polls
               /\ pc' = "setup_meter_wmod_again"
    /\ UNCHANGED <<handles, facade, caught>>
    /\ UNCHANGED <<variant, cfg, meter_stat, scan_status, status, count,
                   expected_size, response, values, err>>

\* the loop turn that asks again without writing the mode
setup_meter_wmod_again_no_write ==
    /\ pc = "setup_meter_wmod_again"
    /\ UNCHANGED wire
    /\ polls' = Tick(polls)
    /\ pc' = "setup_meter_wmod"
    /\ UNCHANGED <<handles, facade, caught>>
    /\ UNCHANGED <<variant, cfg, meter_stat, scan_status, status, count,
                   expected_size, response, values, err>>

\* line 82: mpm.write('WMOD SWEEP2') inside the loop
setup_meter_wmod_again ==
    /\ pc = "setup_meter_wmod_again"
    /\ wire' = Turn(wire, << MW("WMOD SWEEP2", <<>>) >>)
    /\ polls' = Tick(polls)
    /\ pc' = "setup_meter_wmod"
    /\ UNCHANGED <<handles, facade, caught>>
    /\ UNCHANGED <<variant, cfg, meter_stat, scan_status, status, count,
                   expected_size, response, values, err>>

\* lines 83-88
setup_meter_settings ==
    /\ pc = "setup_meter_settings"
    /\ wire' = wire \o << MQ("WMOD?", <<"SWEEP2">>) >> \o setup_meter_body(cfg)
    /\ pc' = "run_sweep"
    /\ UNCHANGED <<handles, facade, caught>>
    /\ UNCHANGED <<variant, cfg, polls, meter_stat, scan_status, status,
                   count, expected_size, response, values, err>>

\* lines 94-98
run_sweep ==
    /\ pc = "run_sweep"
    /\ wire' = wire \o << TW("WAV", <<cfg.start>>), MW("MEAS", <<>>),
                          TW(":WAV:SWE", <<1>>) >>
    /\ meter_stat' = 0
    /\ polls' = 0
    /\ pc' = "run_sweep_standby"
    /\ UNCHANGED <<handles, facade, caught>>
    /\ UNCHANGED <<variant, cfg, scan_status, status, count, expected_size,
                   response, values, err>>

\* the standby loop with the start command written before every poll
run_sweep_standby_restart ==
    /\ pc = "run_sweep_standby"
    /\ \E r \in SweepAnswers :
          /\ scan_status' = r
          /\ IF r # 3
             THEN /\ wire' = Turn(wire, << TW(":WAV:SWE", <<1>>),
                                          TQ(":WAV:SWE?", <<r>>) >>)
                  /\ polls' = Tick(polls)
                  /\ pc' = "run_sweep_standby_sleep"
             ELSE /\ wire' = wire \o << TW(":WAV:SWE", <<1>>),
                                       TQ(":WAV:SWE?", <<r>>) >>
                  /\ polls' = 0
                  /\ pc' = "run_sweep_trigger"
    /\ UNCHANGED <<handles, facade, caught>>
    /\ UNCHANGED <<variant, cfg, meter_stat, status, count,
                   expected_size, response, values, err>>

\* lines 101-102: while int(tsl.query(':WAV:SWE?')) != 3: sleep
run_sweep_standby ==
    /\ pc = "run_sweep_standby"
    /\ \E r \in SweepAnswers :
          /\ scan_status' = r
          /\ IF r # 3
             THEN /\ wire' = Turn(wire, << TQ(":WAV:SWE?", <<r>>) >>)
                  /\ polls' = Tick(polls)
                  /\ pc' = "run_sweep_standby_sleep"
             ELSE /\ wire' = wire \o << TQ(":WAV:SWE?", <<r>>) >>
                  /\ polls' = 0
                  /\ pc' = "run_sweep_trigger"
    /\ UNCHANGED <<handles, facade, caught>>
    /\ UNCHANGED <<variant, cfg, meter_stat, status, count,
                   expected_size, response, values, err>>

\* lines 104-107: software trigger, first STAT? query
run_sweep_trigger ==
    /\ pc = "run_sweep_trigger"
    /\ \E s \in StatNow : \E n \in PointsFor(s) :
          /\ wire' = wire \o << TW(":WAV:SWE:SOFT", <<>>),
                                MQ("STAT?", <<s, n>>) >>
          /\ meter_stat' = s
          /\ status' = s
    /\ polls' = 0
    /\ pc' = "run_sweep_stat"
    /\ UNCHANGED <<handles, facade, caught>>
    /\ UNCHANGED <<variant, cfg, scan_status, count, expected_size,
                   response, values, err>>

\* lines 108-110 and 113: while status[0] == '0': print, sleep
run_sweep_stat ==
    /\ pc = "run_sweep_stat"
    /\ pc' = IF status = 0 THEN "run_sweep_stat_sleep" ELSE "get_data"
    /\ UNCHANGED <<handles, facade, caught>>
    /\ UNCHANGED <<variant, cfg, wire, polls, meter_stat, scan_status, status,
                   count, expected_size, response, values, err>>

\* the poll with the power unit written before each STAT? query
run_sweep_stat_query_unit ==
    /\ pc = "run_sweep_stat_query"
    /\ \E s \in StatNow : \E n \in PointsFor(s) :
          /\ wire' = IF s = 0
                     THEN Turn(wire, << MW("UNIT", <<0>>),
                                       MQ("STAT?", <<s, n>>) >>)
                     ELSE wire \o << MW("UNIT", <<0>>),
                                    MQ("STAT?", <<s, n>>) >>
          /\ polls' = IF s = 0 THEN Tick(polls) ELSE 0
          /\ meter_stat' = s
          /\ status' = s
    /\ pc' = "run_sweep_stat"
    /\ UNCHANGED <<handles, facade, caught>>
    /\ UNCHANGED <<variant, cfg, scan_status, count, expected_size,
                   response, values, err>>

\* line 111: status = mpm.query('STAT?').split(',')
run_sweep_stat_query ==
    /\ pc = "run_sweep_stat_query"
    /\ \E s \in StatNow : \E n \in PointsFor(s) :
          /\ wire' = IF s = 0 THEN Turn(wire, << MQ("STAT?", <<s, n>>) >>)
                              ELSE wire \o << MQ("STAT?", <<s, n>>) >>
          /\ polls' = IF s = 0 THEN Tick(polls) ELSE 0
          /\ meter_stat' = s
          /\ status' = s
    /\ pc' = "run_sweep_stat"
    /\ UNCHANGED <<handles, facade, caught>>
    /\ UNCHANGED <<variant, cfg, scan_status, count, expected_size,
                   response, values, err>>

\* lines 48, 102 and 110: time.sleep between two polls
sleep_215 ==
    /\ pc \in {"setup_laser_opc_sleep", "run_sweep_standby_sleep",
               "run_sweep_stat_sleep"}
    /\ pc' = CASE pc = "setup_laser_opc_sleep" -> "setup_laser_opc"
              [] pc = "run_sweep_standby_sleep" -> "run_sweep_standby"
              [] pc = "run_sweep_stat_sleep" -> "run_sweep_stat_query"
    /\ UNCHANGED <<handles, facade, caught>>
    /\ UNCHANGED <<variant, cfg, wire, polls, meter_stat, scan_status, status,
                   count, expected_size, response, values, err>>

\* lines 118-126: LOGN? query, expected size, LOGG? write
get_data ==
    /\ pc = "get_data"
    /\ \E c \in 0..MaxCount :
          /\ count' = c
          /\ IF c = 0
             THEN /\ wire' = wire \o << MQ("LOGN?", <<c>>) >>
                  /\ err' = "ValueError"
                  /\ pc' = "raised"
                  /\ UNCHANGED expected_size
             ELSE /\ expected_size' = ExpectedSize215(c)
                  /\ wire' = wire \o << MQ("LOGN?", <<c>>), MW("LOGG?", <<>>) >>
                  /\ pc' = "get_data_read"
                  /\ UNCHANGED err
    /\ UNCHANGED <<handles, facade, caught>>
    /\ UNCHANGED <<variant, cfg, polls, meter_stat, scan_status, status,
                   response, values>>

\* what the meter puts on the line after LOGG?: a block, then further bytes
MeterStream(m, extra) == IEEEBlock(m) \o [i \in 1..extra |-> 13]

\* the block read in two calls
get_data_read_twice ==
    /\ pc = "get_data_read"
    /\ wire' = wire \o << MRB(2), MRB(expected_size - 2) >>
    /\ \E m \in 0..MaxCount, extra \in 0..MaxExtra :
          IF Len(MeterStream(m, extra)) < expected_size
          THEN /\ err' = "VisaIOError"
               /\ pc' = "raised"
               /\ UNCHANGED response
          ELSE /\ response' = SubSeq(MeterStream(m, extra), 1, expected_size)
               /\ pc' = "get_data_decode"
               /\ UNCHANGED err
    /\ UNCHANGED <<handles, facade, caught>>
    /\ UNCHANGED <<variant, cfg, polls, meter_stat, scan_status, status,
                   count, expected_size, values>>

\* line 129: read_bytes(expected_size) returns that many bytes or times out
get_data_read ==
    /\ pc = "get_data_read"
    /\ wire' = wire \o << MRB(expected_size) >>
    /\ \E m \in 0..MaxCount, extra \in 0..MaxExtra :
          IF Len(MeterStream(m, extra)) < expected_size
          THEN /\ err' = "VisaIOError"
               /\ pc' = "raised"
               /\ UNCHANGED response
          ELSE /\ response' = SubSeq(MeterStream(m, extra), 1, expected_size)
               /\ pc' = "get_data_decode"
               /\ UNCHANGED err
    /\ UNCHANGED <<handles, facade, caught>>
    /\ UNCHANGED <<variant, cfg, polls, meter_stat, scan_status, status,
                   count, expected_size, values>>

\* lines 130-132 and main lines 161-162
get_data_decode ==
    /\ pc = "get_data_decode"
    /\ IF from_ieee_block(response).ok
       THEN /\ values' = from_ieee_block(response).vals
            /\ pc' = "done"
            /\ UNCHANGED err
       ELSE /\ err' = "ValueError"
            /\ pc' = "raised"
            /\ UNCHANGED values
    /\ UNCHANGED <<handles, facade, caught>>
    /\ UNCHANGED <<variant, cfg, wire, polls, meter_stat, scan_status,
                   status, count, expected_size, response>>

Next215 ==
    \/ main_215
    \/ setup_laser \/ setup_laser_opc \/ setup_laser_settings
    \/ setup_meter \/ setup_meter_wmod \/ setup_meter_wmod_again
    \/ setup_meter_settings
    \/ run_sweep \/ run_sweep_standby \/ run_sweep_trigger \/ run_sweep_stat
    \/ run_sweep_stat_query \/ sleep_215
    \/ get_data \/ get_data_read \/ get_data_decode

----------------------------------------------------------------------------
(* sme_operation/sme_operation.py, class SME *)

SME_configure_tsl_head ==
    << TW("*CLS", <<>>), TW("*RST", <<>>), TW("SYST:COMM:COD", <<0>>),
       TW("SYST:COMM:GPIB:DEL", <<2>>) >>

SME_configure_tsl_body(c) ==
    << TW("POW:UNIT", <<0>>), TW("WAV:UNIT", <<0>>), TW("POW:ATT:AUT", <<1>>),
       TW("COHCtrl", <<0>>), TW("POW:SHUT", <<0>>), TW("POW", <<>>),
       TW("WAV:SWE:STAR", <<c.start>>), TW("WAV:SWE:STOP", <<c.stop>>),
       TW("WAV:SWE:SPE", <<>>), TW("TRIG:OUTP:STEP", <<c.step>>) >>

\* lines 43-54
SME_configure_tsl ==
    /\ pc = "SME_configure_tsl"
    /\ \E r \in PowStatAnswers :
          /\ wire' = wire \o SME_configure_tsl_head \o << TQ("POW:STAT?", <<r>>) >>
                        \o (IF r = 0 THEN << TW("POW:STAT", <<1>>) >> ELSE <<>>)
          /\ pc' = IF r = 0 THEN "SME_configure_tsl_opc"
                            ELSE "SME_configure_tsl_settings"
    /\ polls' = 0
    /\ UNCHANGED <<handles, facade, caught>>
    /\ UNCHANGED <<variant, cfg, meter_stat, scan_status, status, count,
                   expected_size, response, values, err>>

\* lines 55-58: while int(self.laser.query('*OPC?')) == 0: sleep
SME_configure_tsl_opc ==
    /\ pc = "SME_configure_tsl_opc"
    /\ \E r \in OpcAnswers :
          IF r = 0
          THEN /\ wire' = Turn(wire, << TQ("*OPC?", <<r>>) >>)
               /\ polls' = Tick(polls)
               /\ pc' = "SME_configure_tsl_opc_sleep"
          ELSE /\ wire' = wire \o << TQ("*OPC?", <<r>>) >>
               /\ polls' = 0
               /\ pc' = "SME_configure_tsl_settings"
    /\ UNCHANGED <<handles, facade, caught>>
    /\ UNCHANGED <<variant, cfg, meter_stat, scan_status, status, count,
                   expected_size, response, values, err>>

\* lines 61-72
SME_configure_tsl_settings ==
    /\ pc = "SME_configure_tsl_settings"
    /\ wire' = wire \o SME_configure_tsl_body(cfg)
    /\ pc' = "SME_configure_mpm"
    /\ UNCHANGED <<handles, facade, caught>>
    /\ UNCHANGED <<variant, cfg, polls, meter_stat, scan_status, status,
                   count, expected_size, response, values, err>>

measurement_mode(c) == IF c.is_mpm_215 THEN "SWEEP2" ELSE "SWEEP1"

WMOD(mode) == IF mode = "SWEEP2" THEN MW("WMOD SWEEP2", <<>>)
                                 ELSE MW("WMOD SWEEP1", <<>>)

SME_configure_mpm_head(c) ==
    << MW("STOP", <<>>), MW("UNIT", <<0>>), MW("AUTO", <<0>>), MW("LEV", <<1>>) >>
      \o (IF c.is_mpm_215 THEN << MW("AUTO", <<1>>) >> ELSE <<>>)
      \o << MW("TRIG", <<1>>), WMOD(measurement_mode(c)),
            MW("WSET", <<c.start, c.stop, c.step>>), MW("SPE", <<>>) >>

\* int((stop - start) / step + 1): int() truncates towards zero
DataCount(start, stop, step) ==
    LET d == stop - start
    IN  IF d + step >= 0 THEN (d + step) \div step
        ELSE -((-(d + step)) \div step)

\* the tail with the data count written whatever the module is
SME_configure_mpm_tail_logn(c) ==
    << MW("WAV", <<c.start + c.stop, 2>>),
       MW("LOGN", <<DataCount(c.start, c.stop, c.step)>>) >>

SME_configure_mpm_tail(c) ==
    << MW("WAV", <<c.start + c.stop, 2>>) >>
      \o (IF ~c.is_mpm_215
          THEN << MW("LOGN", <<DataCount(c.start, c.stop, c.step)>>) >>
          ELSE <<>>)

\* lines 92-116
SME_configure_mpm ==
    /\ pc = "SME_configure_mpm"
    /\ wire' = wire \o SME_configure_mpm_head(cfg)
    /\ polls' = 0
    /\ pc' = "SME_configure_mpm_wmod"
    /\ UNCHANGED <<handles, facade, caught>>
    /\ UNCHANGED <<variant, cfg, meter_stat, scan_status, status, count,
                   expected_size, response, values, err>>

\* lines 121-124: write WMOD again until WMOD? answers the mode
SME_configure_mpm_wmod ==
    /\ pc = "SME_configure_mpm_wmod"
    /\ \E m \in Modes :
          IF m = measurement_mode(cfg)
          THEN /\ wire' = wire \o << MQ("WMOD?", <<m>>) >>
               /\ polls' = 0
               /\ pc' = "SME_configure_mpm_settings"
          ELSE /\ wire' = Turn(wire, << MQ("WMOD?", <<m>>) >>)
               /\ polls' = polls
               /\ pc' = "SME_configure_mpm_wmod_again"
    /\ UNCHANGED <<handles, facade, caught>>
    /\ UNCHANGED <<variant, cfg, meter_stat, scan_status, status, count,
                   expected_size, response, values, err>>

\* line 124: the WMOD write inside the loop
SME_configure_mpm_wmod_again ==
    /\ pc = "SME_configure_mpm_wmod_again"
    /\ wire' = Turn(wire, << WMOD(measurement_mode(cfg)) >>)
    /\ polls' = Tick(polls)
    /\ pc' = "SME_configure_mpm_wmod"
    /\ UNCHANGED <<handles, facade, caught>>
    /\ UNCHANGED <<variant, cfg, meter_stat, scan_status, status, count,
                   expected_size, response, values, err>>

\* lines 125-134
SME_configure_mpm_settings ==
    /\ pc = "SME_configure_mpm_settings"
    /\ wire' = wire \o << MQ("WMOD?", <<measurement_mode(cfg)>>) >>
                  \o SME_configure_mpm_tail(cfg)
    /\ pc' = "SME_perform_scan"
    /\ UNCHANGED <<handles, facade, caught>>
    /\ UNCHANGED <<variant, cfg, polls, meter_stat, scan_status, status,
                   count, expected_size, response, values, err>>

\* lines 146-152
SME_perform_scan ==
    /\ pc = "SME_perform_scan"
    /\ meter_stat' = 0
    /\ \E r \in SweepAnswers :
          /\ wire' = wire \o << MW("MEAS", <<>>), TW(":WAV:SWE", <<1>>),
                                TQ(":WAV:SWE?", <<r>>) >>
          /\ scan_status' = r
    /\ polls' = 0
    /\ pc' = "SME_perform_scan_standby"
    /\ UNCHANGED <<handles, facade, caught>>
    /\ UNCHANGED <<variant, cfg, status, count, expected_size, response,
                   values, err>>

\* lines 153-159: start the scan again until the status is 3, then trigger
SME_perform_scan_standby ==
    /\ pc = "SME_perform_scan_standby"
    /\ IF scan_status # 3
       THEN \E r \in SweepAnswers :
              /\ wire' = IF r # 3
                        THEN Turn(wire, << TW(":WAV:SWE", <<1>>),
                                          TQ(":WAV:SWE?", <<r>>) >>)
                        ELSE wire \o << TW(":WAV:SWE", <<1>>),
                                       TQ(":WAV:SWE?", <<r>>) >>
              /\ polls' = IF r # 3 THEN Tick(polls) ELSE 0
              /\ scan_status' = r
              /\ pc' = "SME_perform_scan_standby_sleep"
       ELSE /\ wire' = wire \o << TW(":WAV:SWE:SOFT", <<>>) >>
            /\ polls' = 0
            /\ pc' = "SME_perform_scan_stat"
            /\ UNCHANGED scan_status
    /\ UNCHANGED <<handles, facade, caught>>
    /\ UNCHANGED <<variant, cfg, meter_stat, status, count,
                   expected_size, response, values, err>>

\* the wait that polls on whatever the meter answers
SME_perform_scan_stat_stay ==
    /\ pc = "SME_perform_scan_stat"
    /\ \E s \in StatNow : \E n \in PointsFor(s) :
          /\ wire' = Turn(wire, << MQ("STAT?", <<s, n>>) >>)
          /\ meter_stat' = s
          /\ status' = s
          /\ polls' = Tick(polls)
          /\ pc' = "SME_perform_scan_stat_sleep"
    /\ UNCHANGED <<handles, facade, caught>>
    /\ UNCHANGED <<variant, cfg, scan_status, count, expected_size,
                   response, values, err>>

\* lines 165-174: while STAT? reports 0, optionally query again to display
SME_perform_scan_stat ==
    /\ pc = "SME_perform_scan_stat"
    /\ \E s \in StatNow : \E n \in PointsFor(s) :
          IF s # 0
          THEN /\ wire' = wire \o << MQ("STAT?", <<s, n>>) >>
               /\ meter_stat' = s
               /\ status' = s
               /\ polls' = 0
               /\ pc' = "SME_perform_scan_final"
          ELSE IF cfg.display_logging_status
          THEN \E s2 \in StatAnswers : \E n2 \in PointsFor(s2) :
                 /\ wire' = Turn(wire, << MQ("STAT?", <<s, n>>),
                                        MQ("STAT?", <<s2, n2>>) >>)
                 /\ meter_stat' = s2
                 /\ status' = s
                 /\ polls' = Tick(polls)
                 /\ pc' = "SME_perform_scan_stat_sleep"
          ELSE /\ wire' = Turn(wire, << MQ("STAT?", <<s, n>>) >>)
               /\ meter_stat' = s
               /\ status' = s
               /\ polls' = Tick(polls)
               /\ pc' = "SME_perform_scan_stat_sleep"
    /\ UNCHANGED <<handles, facade, caught>>
    /\ UNCHANGED <<variant, cfg, scan_status, count, expected_size,
                   response, values, err>>

\* the final status read issued twice
SME_perform_scan_final_twice ==
    /\ pc = "SME_perform_scan_final"
    /\ \E s \in StatNow : \E n \in PointsFor(s) :
          /\ wire' = wire \o << MQ("STAT?", <<s, n>>), MQ("STAT?", <<s, n>>) >>
          /\ meter_stat' = s
    /\ pc' = "done"
    /\ UNCHANGED <<handles, facade, caught>>
    /\ UNCHANGED <<variant, cfg, polls, scan_status, status, count,
                   expected_size, response, values, err>>

\* lines 177-189: the final status and data count
SME_perform_scan_final ==
    /\ pc = "SME_perform_scan_final"
    /\ \E s \in StatNow : \E n \in PointsFor(s) :
          /\ wire' = wire \o << MQ("STAT?", <<s, n>>) >>
          /\ meter_stat' = s
    /\ pc' = "done"
    /\ UNCHANGED <<handles, facade, caught>>
    /\ UNCHANGED <<variant, cfg, polls, scan_status, status, count,
                   expected_size, response, values, err>>

\* lines 58, 156 and 174: time.sleep between two polls
SME_sleep ==
    /\ pc \in {"SME_configure_tsl_opc_sleep", "SME_perform_scan_standby_sleep",
               "SME_perform_scan_stat_sleep"}
    /\ pc' = CASE pc = "SME_configure_tsl_opc_sleep" -> "SME_configure_tsl_opc"
              [] pc = "SME_perform_scan_standby_sleep"
                   -> "SME_perform_scan_standby"
              [] pc = "SME_perform_scan_stat_sleep" -> "SME_perform_scan_stat"
    /\ UNCHANGED <<handles, facade, caught>>
    /\ UNCHANGED <<variant, cfg, wire, polls, meter_stat, scan_status, status,
                   count, expected_size, response, values, err>>

NextSME ==
    \/ SME_configure_tsl \/ SME_configure_tsl_opc \/ SME_configure_tsl_settings
    \/ SME_configure_mpm \/ SME_configure_mpm_wmod
    \/ SME_configure_mpm_wmod_again
    \/ SME_configure_mpm_settings
    \/ SME_perform_scan \/ SME_perform_scan_standby \/ SME_perform_scan_stat
    \/ SME_perform_scan_final \/ SME_sleep

----------------------------------------------------------------------------
(* simple_sme.py *)

\* line 30: the *IDN? query on the handle just opened on resource t
IDN(t) == [dev |-> "buffer", op |-> "query", cmd |-> "*IDN?", args |-> <<t>>,
           resp |-> <<>>]

\* the loop turn with both globals assigned from a laser's handle
initialize_instruments_one_buffer ==
    /\ pc = "initialize_instruments"
    /\ tool <= Len(tools)
    /\ IF tools[tool] = "error"
       THEN UNCHANGED <<wire, opened, TSL, MPM>>
       ELSE /\ wire' = wire \o << IDN(tool) >>
            /\ opened' = opened \cup {tool}
            /\ TSL' = IF tools[tool] = "TSL" THEN tool ELSE TSL
            /\ MPM' = IF tools[tool] \in {"TSL", "MPM"} THEN tool ELSE MPM
    /\ tool' = tool + 1
    /\ UNCHANGED <<tools, facade, caught>>
    /\ UNCHANGED <<variant, cfg, pc, polls, meter_stat, scan_status, status,
                   count, expected_size, response, values, err>>

\* lines 27-38, one turn of the loop over the GPIB resources: a resource
\* that cannot be opened is reported and skipped, one that is opened is sent
\* *IDN? and keeps its handle open; it becomes TSL or MPM when its answer
\* names one, and is reported and skipped when the query raises
initialize_instruments ==
    /\ pc = "initialize_instruments"
    /\ tool <= Len(tools)
    /\ IF tools[tool] = "error"
       THEN UNCHANGED <<wire, opened, TSL, MPM>>
       ELSE /\ wire' = wire \o << IDN(tool) >>
            /\ opened' = opened \cup {tool}
            /\ TSL' = IF tools[tool] = "TSL" THEN tool ELSE TSL
            /\ MPM' = IF tools[tool] = "MPM" THEN tool ELSE MPM
    /\ tool' = tool + 1
    /\ UNCHANGED <<tools, facade, caught>>
    /\ UNCHANGED <<variant, cfg, pc, polls, meter_stat, scan_status, status,
                   count, expected_size, response, values, err>>

\* main going on to the configuration whatever was detected
main_simple_unchecked ==
    /\ pc = "initialize_instruments"
    /\ tool > Len(tools)
    /\ pc' = "configure_tsl"
    /\ UNCHANGED <<handles, facade, caught>>
    /\ UNCHANGED <<variant, cfg, wire, polls, meter_stat, scan_status,
                   status, count, expected_size, response, values, err>>

\* main lines 133-137: after the loop, return unless both were detected
main_simple ==
    /\ pc = "initialize_instruments"
    /\ tool > Len(tools)
    /\ pc' = IF TSL = None \/ MPM = None THEN "done" ELSE "configure_tsl"
    /\ UNCHANGED <<handles, facade, caught>>
    /\ UNCHANGED <<variant, cfg, wire, polls, meter_stat, scan_status,
                   status, count, expected_size, response, values, err>>

configure_tsl_head ==
    << TW("*CLS", <<>>), TW("*RST", <<>>), TW("SYST:COMM:GPIB:DEL", <<2>>),
       TW("SYST:COMM:COD", <<0>>) >>

configure_tsl_body(c) ==
    << TW("POW:UNIT", <<0>>), TW("WAV:UNIT", <<0>>), TW("COHCtrl", <<0>>),
       TW("POW:ATT:AUT", <<1>>), TW("AM:STAT", <<0>>), TW(":POW:SHUT", <<0>>),
       TW(":TRIG:OUTP", <<3>>), TW("TRIG:INP:EXT", <<0>>), TW("POW", <<>>),
       TW("WAV:SWE:STAR", <<c.start>>), TW("WAV:SWE:STOP", <<c.stop>>),
       TW("WAV:SWE:SPE", <<>>), TW("TRIG:OUTP:STEP", <<c.step>>) >>

\* lines 43-49
configure_tsl ==
    /\ pc = "configure_tsl"
    /\ \E r \in PowStatAnswers :
          /\ wire' = wire \o configure_tsl_head \o << TQ("POW:STAT?", <<r>>) >>
                        \o (IF r = 0 THEN << TW("POW:STAT", <<1>>) >> ELSE <<>>)
          /\ pc' = IF r = 0 THEN "configure_tsl_opc" ELSE "configure_tsl_settings"
    /\ polls' = 0
    /\ UNCHANGED <<handles, facade, caught>>
    /\ UNCHANGED <<variant, cfg, meter_stat, scan_status, status, count,
                   expected_size, response, values, err>>

\* lines 50-51: while int(TSL.query('*OPC?')) == 0: sleep
configure_tsl_opc ==
    /\ pc = "configure_tsl_opc"
    /\ \E r \in OpcAnswers :
          IF r = 0
          THEN /\ wire' = Turn(wire, << TQ("*OPC?", <<r>>) >>)
               /\ polls' = Tick(polls)
               /\ pc' = "configure_tsl_opc_sleep"
          ELSE /\ wire' = wire \o << TQ("*OPC?", <<r>>) >>
               /\ polls' = 0
               /\ pc' = "configure_tsl_settings"
    /\ UNCHANGED <<handles, facade, caught>>
    /\ UNCHANGED <<variant, cfg, meter_stat, scan_status, status, count,
                   expected_size, response, values, err>>

\* lines 53-69
configure_tsl_settings ==
    /\ pc = "configure_tsl_settings"
    /\ wire' = wire \o configure_tsl_body(cfg)
    /\ pc' = "configure_mpm"
    /\ UNCHANGED <<handles, facade, caught>>
    /\ UNCHANGED <<variant, cfg, polls, meter_stat, scan_status, status,
                   count, expected_size, response, values, err>>

\* the sweep window written before the measurement mode
configure_mpm_cmds_wset_first(c) ==
    << MW("UNIT", <<0>>), MW("LEV", <<1>>),
       MW("WSET", <<c.start, c.stop, c.step>>), MW("WMOD SWEEP1", <<>>),
       MW("TRIG", <<1>>), MW("SPE", <<>>) >>

configure_mpm_cmds(c) ==
    << MW("UNIT", <<0>>), MW("LEV", <<1>>), MW("WMOD SWEEP1", <<>>),
       MW("TRIG", <<1>>), MW("WSET", <<c.start, c.stop, c.step>>),
       MW("SPE", <<>>) >>

\* lines 74-79
configure_mpm ==
    /\ pc = "configure_mpm"
    /\ wire' = wire \o configure_mpm_cmds(cfg)
    /\ pc' = "perform_sweep"
    /\ UNCHANGED <<handles, facade, caught>>
    /\ UNCHANGED <<variant, cfg, polls, meter_stat, scan_status, status,
                   count, expected_size, response, values, err>>

\* lines 84-88
perform_sweep ==
    /\ pc = "perform_sweep"
    /\ wire' = wire \o << TW("WAV", <<cfg.start>>), TW("TRIG:INP:STAN", <<1>>),
                        TW("WAV:SWE", <<1>>) >>
    /\ polls' = 0
    /\ pc' = "perform_sweep_standby"
    /\ UNCHANGED <<handles, facade, caught>>
    /\ UNCHANGED <<variant, cfg, meter_stat, scan_status, status, count,
                   expected_size, response, values, err>>

\* lines 91-92: while TSL.query('WAV:SWE?') != '3': sleep
perform_sweep_standby ==
    /\ pc = "perform_sweep_standby"
    /\ \E r \in SweepAnswers :
          /\ scan_status' = r
          /\ IF r # 3
             THEN /\ wire' = Turn(wire, << TQ("WAV:SWE?", <<r>>) >>)
                  /\ polls' = Tick(polls)
                  /\ pc' = "perform_sweep_standby_sleep"
             ELSE /\ wire' = wire \o << TQ("WAV:SWE?", <<r>>) >>
                  /\ polls' = 0
                  /\ pc' = "perform_sweep_trigger"
    /\ UNCHANGED <<handles, facade, caught>>
    /\ UNCHANGED <<variant, cfg, meter_stat, status, count,
                   expected_size, response, values, err>>

\* the software trigger without the MEAS write
perform_sweep_trigger_no_meas ==
    /\ pc = "perform_sweep_trigger"
    /\ wire' = wire \o << TW("WAV:SWE:SOFT", <<>>) >>
    /\ meter_stat' = 0
    /\ polls' = 0
    /\ pc' = "perform_sweep_stat"
    /\ UNCHANGED <<handles, facade, caught>>
    /\ UNCHANGED <<variant, cfg, scan_status, status, count, expected_size,
                   response, values, err>>

\* lines 97-100: start the measurement, software trigger
perform_sweep_trigger ==
    /\ pc = "perform_sweep_trigger"
    /\ wire' = wire \o << MW("MEAS", <<>>), TW("WAV:SWE:SOFT", <<>>) >>
    /\ meter_stat' = 0
    /\ polls' = 0
    /\ pc' = "perform_sweep_stat"
    /\ UNCHANGED <<handles, facade, caught>>
    /\ UNCHANGED <<variant, cfg, scan_status, status, count, expected_size,
                   response, values, err>>

\* lines 103-107: while STAT? reports 0: print(STAT?), sleep
perform_sweep_stat ==
    /\ pc = "perform_sweep_stat"
    /\ \E s \in StatNow : \E n \in PointsFor(s) :
          IF s # 0
          THEN /\ wire' = wire \o << MQ("STAT?", <<s, n>>) >>
               /\ meter_stat' = s
               /\ status' = s
               /\ polls' = 0
               /\ pc' = "fetch_data"
          ELSE \E s2 \in StatAnswers : \E n2 \in PointsFor(s2) :
                 /\ wire' = Turn(wire, << MQ("STAT?", <<s, n>>),
                                        MQ("STAT?", <<s2, n2>>) >>)
                 /\ meter_stat' = s2
                 /\ status' = s
                 /\ polls' = Tick(polls)
                 /\ pc' = "perform_sweep_stat_sleep"
    /\ UNCHANGED <<handles, facade, caught>>
    /\ UNCHANGED <<variant, cfg, scan_status, count, expected_size,
                   response, values, err>>

\* lines 110-128 and main lines 158-161: any error ends in an empty list;
\* the first branch fails before anything is sent, the second on the answer
fetch_data ==
    /\ pc = "fetch_data"
    /\ \/ /\ UNCHANGED wire
          /\ values' = <<>>
          /\ caught' = "Exception"
       \/ /\ wire' = wire \o << MQ("LOGG?", <<>>) >>
          /\ values' = <<>>
          /\ caught' = "Exception"
       \/ \E m \in 0..MaxCount :
            /\ wire' = wire \o << MQ("LOGG?", <<>>) >>
            /\ values' = [i \in 1..m |-> 0]
            /\ UNCHANGED caught
    /\ pc' = "done"
    /\ UNCHANGED <<handles, facade>>
    /\ UNCHANGED <<variant, cfg, polls, meter_stat, scan_status, status,
                   count, expected_size, response, err>>

\* lines 51, 92 and 105: time.sleep between two polls
simple_sleep ==
    /\ pc \in {"configure_tsl_opc_sleep", "perform_sweep_standby_sleep",
               "perform_sweep_stat_sleep"}
    /\ pc' = CASE pc = "configure_tsl_opc_sleep" -> "configure_tsl_opc"
              [] pc = "perform_sweep_standby_sleep" -> "perform_sweep_standby"
              [] pc = "perform_sweep_stat_sleep" -> "perform_sweep_stat"
    /\ UNCHANGED <<handles, facade, caught>>
    /\ UNCHANGED <<variant, cfg, wire, polls, meter_stat, scan_status, status,
                   count, expected_size, response, values, err>>

NextSimple ==
    \/ initialize_instruments \/ main_simple
    \/ configure_tsl \/ configure_tsl_opc \/ configure_tsl_settings
    \/ configure_mpm
    \/ perform_sweep \/ perform_sweep_standby \/ perform_sweep_trigger
    \/ perform_sweep_stat \/ simple_sleep
    \/ fetch_data

----------------------------------------------------------------------------
(* mpm_instrument/mpm_instrument.py, class MPM *)

\* the codes of the ErrorCode enumeration, lines 593-616
ErrorCode ==
    {0, -101, -103, -104, -108, -109, -110, -113, -221, -222, -284, -300,
     -301, -350, -351, 101, 103, 104, 110, 116, 117, 120, 210}

\* codes the meter may answer to ERR?, two of them outside the enumeration
ErrAnswers == {0, -222, 210, 1, -999}

\* limits of the WSET setter, wavelengths in nm, steps in 0.001 nm
WsetLow == 1250
WsetHigh == 1630
WsetStepLow == 1
WsetStepHigh == 10000

\* arguments tried on the setters
WsetWavelengths == {WsetLow - 1, WsetLow, WsetHigh, WsetHigh + 1}
WsetSteps == {WsetStepLow - 1, WsetStepLow, WsetStepHigh, WsetStepHigh + 1}
RangeModes == {0, 1, 2}
AutoAnswers == {0, 1}

\* bytes of its payload a block may be short of when the meter stops sending
Shortfalls == {0, 1}

\* the first bytes of block, s payload bytes short (n payload bytes in all)
Cut(block, n, s) == SubSeq(block, 1, Len(block) - Min(s, n))

\* what the meter may send after LOGG?: nothing, a block, or a block cut short
LoggStreams ==
    {<<>>} \cup {Cut(IEEEBlock(m), 4 * m, s) : m \in 0..MaxCount,
                                              s \in Shortfalls}

MRR == [dev |-> "mpm", op |-> "read_raw", cmd |-> "", args |-> <<>>,
        resp |-> <<>>]

\* the record of one call: its name and arguments, the traffic it sent, the
\* streams its reads received, the exception it raised, the value it returned
Called(n, a, s, rc, r, res) ==
    [name |-> n, args |-> a, sent |-> s, recv |-> rc, raised |-> r,
     result |-> res]

\* one call on the object: the traffic goes out on the instance, the private
\* field and the exception last caught inside the call take their new values
MPM_call(c, field, swallowed) ==
    /\ pc = "MPM"
    /\ calls < MaxCalls
    /\ calls' = calls + 1
    /\ call' = c
    /\ wire' = wire \o c.sent
    /\ _power_mode_for_each_channel' = field
    /\ caught' = swallowed
    /\ UNCHANGED handles
    /\ UNCHANGED <<variant, cfg, pc, polls, meter_stat, scan_status, status,
                   count, expected_size, response, values, err>>

\* lines 66-78: ERR? is queried and the code is turned into an ErrorCode
\* member; the enumeration raises ValueError for a value it does not hold
MPM_error ==
    \E code \in ErrAnswers :
        MPM_call(Called("error", <<>>, << MQ("ERR?", <<code>>) >>, <<>>,
                        IF code \in ErrorCode THEN "none" ELSE "ValueError",
                        IF code \in ErrorCode THEN Result("pair", <<code>>)
                        ELSE Result("None", <<>>)),
                 _power_mode_for_each_channel, caught)

\* the range checks alone, without the comparison of stop and start
WsetAccepted_any_order(start, stop, step) ==
    /\ WsetLow <= start /\ start <= WsetHigh
    /\ WsetLow <= stop /\ stop <= WsetHigh
    /\ WsetStepLow <= step /\ step <= WsetStepHigh

\* the checks of lines 289-296: both wavelengths and the step inside their
\* limits, and stop above start
WsetAccepted(start, stop, step) ==
    /\ WsetLow <= start /\ start <= WsetHigh
    /\ WsetLow <= stop /\ stop <= WsetHigh
    /\ WsetStepLow <= step /\ step <= WsetStepHigh
    /\ ~(stop <= start)

\* lines 277-298, the setter of sweep_wavelength_and_step
MPM_set_sweep_wavelength_and_step ==
    \E start \in WsetWavelengths, stop \in WsetWavelengths,
       step \in WsetSteps :
        MPM_call(Called("set_sweep_wavelength_and_step",
                        <<start, stop, step>>,
                        IF WsetAccepted(start, stop, step)
                        THEN << MW("WSET", <<start, stop, step>>) >>
                        ELSE <<>>,
                        <<>>,
                        IF WsetAccepted(start, stop, step) THEN "none"
                        ELSE "ValueError",
                        Result("None", <<>>)),
                 _power_mode_for_each_channel, caught)

\* lines 413-416, the getter of power_mode
MPM_power_mode ==
    \E a \in AutoAnswers :
        MPM_call(Called("power_mode", <<>>, << MQ("AUTO?", <<a>>) >>, <<>>,
                        "none", Result("int", <<a>>)),
                 _power_mode_for_each_channel, caught)

\* lines 430-433, the getter of power_mode_for_each_channel: the private
\* field is returned, None until the setter has run
MPM_power_mode_for_each_channel ==
    MPM_call(Called("power_mode_for_each_channel", <<>>, <<>>, <<>>, "none",
                    IF _power_mode_for_each_channel = <<>>
                    THEN Result("None", <<>>)
                    ELSE Result("int", _power_mode_for_each_channel)),
             _power_mode_for_each_channel, caught)

\* lines 435-449, the setter of power_mode_for_each_channel
MPM_set_power_mode_for_each_channel ==
    \E range_mode \in RangeModes :
        IF range_mode \in {0, 1}
        THEN MPM_call(Called("set_power_mode_for_each_channel",
                             <<0, range_mode>>,
                             << MW("DAUTO", <<0, range_mode>>) >>, <<>>,
                             "none", Result("None", <<>>)),
                      <<range_mode>>, caught)
        ELSE MPM_call(Called("set_power_mode_for_each_channel",
                             <<0, range_mode>>, <<>>, <<>>, "ValueError",
                             Result("None", <<>>)),
                      _power_mode_for_each_channel, caught)

\* the method without its second attempt
MPM_get_logging_data_once ==
    \E first \in LoggStreams :
        MPM_call(Called("get_logging_data", <<>>, << MQ("LOGG?", <<>>) >>,
                        <<first>>, "none",
                        IF from_ieee_block(first).ok
                        THEN Result("values", from_ieee_block(first).vals)
                        ELSE Result("None", <<>>)),
                 _power_mode_for_each_channel,
                 IF from_ieee_block(first).ok THEN caught ELSE "Exception")

\* lines 571-590: query_binary_values reads the block the header announces
\* and decodes it; when that raises, the exception is printed, LOGG? is
\* written again and read_raw returns whatever arrives undecoded; when that
\* raises too, it is printed and the method falls off its end
MPM_get_logging_data ==
    \E first \in LoggStreams :
        IF from_ieee_block(first).ok
        THEN MPM_call(Called("get_logging_data", <<>>,
                             << MQ("LOGG?", <<>>) >>, <<first>>, "none",
                             Result("values", from_ieee_block(first).vals)),
                      _power_mode_for_each_channel, caught)
        ELSE \E second \in LoggStreams :
                MPM_call(Called("get_logging_data", <<>>,
                                << MQ("LOGG?", <<>>), MW("LOGG?", <<>>),
                                   MRR >>,
                                <<first, second>>, "none",
                                IF second = <<>> THEN Result("None", <<>>)
                                ELSE Result("bytes", second)),
                         _power_mode_for_each_channel, "Exception")

NextMPM ==
    \/ MPM_error
    \/ MPM_set_sweep_wavelength_and_step
    \/ MPM_power_mode
    \/ MPM_power_mode_for_each_channel
    \/ MPM_set_power_mode_for_each_channel
    \/ MPM_get_logging_data

Next == Next215 \/ NextSME \/ NextSimple \/ NextMPM

Spec == Init /\ [][Next]_vars

\* every script is a sequential program that keeps running
FairSpec == Spec /\ WF_vars(Next)

\* the laser answers WAV:SWE? with 3 to SME.perform_scan
LaserStandsBy ==
    (SME_perform_scan \/ SME_perform_scan_standby) /\ scan_status' = 3

\* the meter answers a STAT? query of SME.perform_scan with a status
\* other than 0
MeterFinishes == SME_perform_scan_stat /\ meter_stat' # 0

\* perform_scan called on a newly constructed SME object
InitScan ==
    /\ variant = "sme_operation"
    /\ cfg \in [start : Wavelengths, stop : Wavelengths, step : Steps,
                is_mpm_215 : BOOLEAN, display_logging_status : BOOLEAN]
    /\ pc = "SME_perform_scan"
    /\ wire = <<>>
    /\ polls = 0
    /\ meter_stat = 1
    /\ scan_status = 0
    /\ status = 0
    /\ count = 0
    /\ expected_size = 0
    /\ response = <<>>
    /\ values = <<>>
    /\ err = "none"
    /\ tools = <<>>
    /\ tool = 1
    /\ TSL = 1
    /\ MPM = ConstructedMeter(variant)
    /\ opened = {TSL, MPM}
    /\ caught = "none"
    /\ _power_mode_for_each_channel = <<>>
    /\ call = NoCall
    /\ calls = 0

NextScan ==
    \/ SME_perform_scan \/ SME_perform_scan_standby \/ SME_perform_scan_stat
    \/ SME_perform_scan_final \/ SME_sleep

\* perform_scan keeps running, and instruments that are asked again and again
\* give these answers in the end
ScanSpec ==
    /\ InitScan /\ [][NextScan]_vars
    /\ WF_vars(NextScan) /\ SF_vars(LaserStandsBy) /\ SF_vars(MeterFinishes)

----------------------------------------------------------------------------
(* The PCU and TSL classes and the scripts that run on their own *)

\* the classes and scripts of this part; each is used without the others
Drivers == {"pcu_instrument", "pcu_controller", "tsl_instrument",
            "tsl_controller", "logg_data_lan", "simple_sme"}

\* where each starts: the objects wait for a call, logg_data_lan.py is at its
\* LOGN? query (line 24), simple_sme.main at its inputs (line 140)
DriverEntry(v) == CASE v \in {"pcu_instrument", "pcu_controller"} -> "PCU"
                    [] v \in {"tsl_instrument", "tsl_controller"} -> "TSL"
                    [] v = "logg_data_lan" -> "logg_data_lan"
                    [] v = "simple_sme" -> "main_inputs"

\* one call on an object of class v of the package: the traffic goes out on
\* the instance the object was constructed with
Object_call(v, c) ==
    /\ variant = v
    /\ pc \in {"PCU", "TSL"}
    /\ calls < MaxCalls
    /\ calls' = calls + 1
    /\ call' = c
    /\ wire' = wire \o c.sent
    /\ UNCHANGED <<handles, _power_mode_for_each_channel, caught>>
    /\ UNCHANGED <<variant, cfg, pc, polls, meter_stat, scan_status, status,
                   count, expected_size, response, values, err>>

\* str.strip() on a text given as its characters
Whitespace == {" ", "\t", "\n", "\r"}

RECURSIVE lstrip(_)
lstrip(s) == IF Len(s) > 0 /\ s[1] \in Whitespace THEN lstrip(Tail(s)) ELSE s

RECURSIVE rstrip(_)
rstrip(s) == IF Len(s) > 0 /\ s[Len(s)] \in Whitespace
             THEN rstrip(SubSeq(s, 1, Len(s) - 1)) ELSE s

strip(s) == rstrip(lstrip(s))

\* 'c in s' for a character c
Contains(c, s) == \E i \in 1..Len(s) : s[i] = c

(* pcu_instrument/pcu_instrument.py and pcu_controller/pcu_controller.py,
   class PCU; pcu_controller/pcu_information.py *)

PCU_W(c, a) == W("pcu", c, a)
PCU_Q(c, r) == Q("pcu", c, r)

\* the values of the ErrorCode enumeration: pcu_instrument.py lines 313-324,
\* the same twelve in pcu_information.py lines 5-16
PCU_ErrorCode ==
    { <<"0">>, <<"-", "1", "0", "2">>, <<"-", "1", "0", "3">>,
      <<"-", "1", "0", "8">>, <<"-", "1", "0", "9">>, <<"-", "1", "1", "3">>,
      <<"-", "1", "3", "1">>, <<"-", "1", "4", "8">>, <<"-", "2", "0", "0">>,
      <<"-", "2", "2", "2">>, <<"-", "2", "2", "4">>, <<"-", "4", "1", "0">> }

\* ErrorCode.get_description, pcu_instrument.py lines 327-342: the dictionary
\* holds an entry for every member, and ErrorCode(error_code) raises
\* ValueError for anything that is no member
PCU_get_description(error_code) ==
    CASE error_code = <<"0">> -> "No error occurred during the operation."
      [] error_code = <<"-", "1", "0", "2">> ->
            "The command contains an invalid syntax or unrecognized format."
      [] error_code = <<"-", "1", "0", "3">> ->
            "A separator in the command is missing or incorrect."
      [] error_code = <<"-", "1", "0", "8">> ->
            "The command contains an unexpected or unsupported parameter."
      [] error_code = <<"-", "1", "0", "9">> ->
            "Required parameter(s) are missing from the command."
      [] error_code = <<"-", "1", "1", "3">> ->
            "The command header is syntactically correct but not supported by the device."
      [] error_code = <<"-", "1", "3", "1">> ->
            "A suffix in the command is invalid or incorrectly formatted."
      [] error_code = <<"-", "1", "4", "8">> ->
            "Character data was received where it is not permitted."
      [] error_code = <<"-", "2", "0", "0">> ->
            "The device is in a state that prevents execution of the command."
      [] error_code = <<"-", "2", "2", "2">> ->
            "A parameter value is outside the permissible range."
      [] error_code = <<"-", "2", "2", "4">> ->
            "A specific value expected by the command is invalid."
      [] error_code = <<"-", "4", "1", "0">> ->
            "The query was interrupted due to an unexpected condition."
      [] OTHER -> "ValueError"

\* texts the PCU may send after :SYST:ERR?: members of the enumeration with
\* and without line ends around them, and texts that are no member
PCU_ErrAnswers ==
    { <<"0">>, <<"0", "\n">>, <<" ", "-", "2", "2", "2", "\r", "\n">>,
      <<"-", "4", "1", "0">>, <<"-", "1", "0", "2", "\n">>,
      <<"+", "0">>, <<"1">>, <<"-", "1", "0", "2", " ", "x">>, <<"\n">>,
      <<>> }

\* the call without the except clause: ValueError leaves the method
PCU_error_call_uncaught(name, text) ==
    LET code == strip(text)
    IN  Called(name, <<>>, << PCU_Q(":SYST:ERR?", text) >>, <<>>,
               IF code \in PCU_ErrorCode THEN "none" ELSE "ValueError",
               IF code \in PCU_ErrorCode
               THEN Result("str", <<code, ": ",
                                    PCU_get_description(code)>>)
               ELSE Result("None", <<>>))

\* the body shared by get_system_error and the system_error property: the
\* stripped response is looked up, and ValueError is caught
PCU_error_call(name, text) ==
    LET code == strip(text)
    IN  Called(name, <<>>, << PCU_Q(":SYST:ERR?", text) >>, <<>>, "none",
               IF code \in PCU_ErrorCode
               THEN Result("str", <<code, ": ",
                                    PCU_get_description(code)>>)
               ELSE Result("str", <<code, ": ", "Unknown error code">>))

\* pcu_instrument.py lines 185-192
PCU_get_system_error ==
    \E text \in PCU_ErrAnswers :
        Object_call("pcu_instrument",
                    PCU_error_call("get_system_error", text))

\* pcu_controller.py lines 195-203
PCU_system_error ==
    \E text \in PCU_ErrAnswers :
        Object_call("pcu_controller", PCU_error_call("system_error", text))

\* limits of the setters
PortHigh == 65535
RegisterHigh == 255

\* arguments tried on the setters
Ports == {-1, 0, 1, PortHigh, PortHigh + 1}
RegisterValues == {-1, 0, RegisterHigh, RegisterHigh + 1}

\* what a query of a command that has no answer may end in: the read times
\* out, or it returns a text left in the output queue
SetQueryOutcomes == {"VisaIOError", "none"}

\* pcu_instrument.py lines 300-309
PCU_set_port_number ==
    \E port \in Ports :
        Object_call("pcu_instrument",
            IF ~(0 <= port /\ port <= PortHigh)
            THEN Called("set_port_number", <<port>>, <<>>, <<>>, "Exception",
                        Result("None", <<>>))
            ELSE Called("set_port_number", <<port>>,
                        << PCU_W(":SYST:COMM:ETH:PORT", <<port>>) >>, <<>>,
                        "none", Result("None", <<>>)))

\* pcu_controller.py lines 325-335: the test is the chained comparison
\* 0 >= port >= 65535, that is 0 >= port and port >= 65535
PCU_port_number ==
    \E port \in Ports :
        Object_call("pcu_controller",
            IF 0 >= port /\ port >= PortHigh
            THEN Called("port_number", <<port>>, <<>>, <<>>, "Exception",
                        Result("None", <<>>))
            ELSE Called("port_number", <<port>>,
                        << PCU_W(":SYST:COMM:ETH:PORT", <<port>>) >>, <<>>,
                        "none", Result("None", <<>>)))

\* pcu_controller.py lines 92-101: 0 >= value >= 255, then *ESE is written
PCU_standard_event_enable_register ==
    \E value \in RegisterValues :
        Object_call("pcu_controller",
            IF 0 >= value /\ value >= RegisterHigh
            THEN Called("standard_event_enable_register", <<value>>, <<>>,
                        <<>>, "Exception", Result("None", <<>>))
            ELSE Called("standard_event_enable_register", <<value>>,
                        << PCU_W("*ESE", <<value>>) >>, <<>>, "none",
                        Result("None", <<>>)))

\* pcu_controller.py lines 113-123: 0 >= value >= 255, then *SRE is sent with
\* query, which also reads an answer to it
PCU_service_request_enable_register ==
    \E value \in RegisterValues, outcome \in SetQueryOutcomes :
        Object_call("pcu_controller",
            IF 0 >= value /\ value >= RegisterHigh
            THEN Called("service_request_enable_register", <<value>>, <<>>,
                        <<>>, "Exception", Result("None", <<>>))
            ELSE Called("service_request_enable_register", <<value>>,
                        << [dev |-> "pcu", op |-> "query", cmd |-> "*SRE",
                            args |-> <<value>>, resp |-> <<>>] >>, <<>>,
                        outcome, Result("None", <<>>)))

NextPCU ==
    \/ PCU_get_system_error
    \/ PCU_system_error
    \/ PCU_set_port_number
    \/ PCU_port_number
    \/ PCU_standard_event_enable_register
    \/ PCU_service_request_enable_register

(* tsl_instrument/tsl_instrument.py and tsl_controller/tsl_controller.py,
   class TSL *)

\* texts the laser may send after :WAV:UNIT?
UnitAnswers == { <<"0">>, <<"1">>, <<"1", "\n">>, <<>> }

\* step values passed to the setters, in pm
StepWidths == {1, 100}

\* tsl_instrument.py lines 124-127: '0' in response, then '1' in response
TSL_get_wavelength_unit(answer) ==
    IF Contains("0", answer) THEN "nm"
    ELSE IF Contains("1", answer) THEN "THz" ELSE ""

\* tsl_controller.py lines 126-130: response == '0', then response == '1'
TSL_wavelength_unit(answer) ==
    IF answer = <<"0">> THEN "nm"
    ELSE IF answer = <<"1">> THEN "THz" ELSE ""

\* tsl_instrument.py lines 462-494
TSL_set_step_width ==
    \E step \in StepWidths, answer \in UnitAnswers :
        Object_call("tsl_instrument",
            Called("set_step_width", <<step>>,
                   << TQ(":WAV:UNIT?", answer),
                      IF TSL_get_wavelength_unit(answer) = "THz"
                      THEN TW(":FREQ:SWE:STEP", <<step>>)
                      ELSE TW(":WAV:SWE:STEP", <<step>>) >>,
                   <<>>, "none", Result("None", <<>>)))

\* tsl_controller.py lines 490-523: the THz branch formats the name value,
\* which the setter does not define (its parameter is step), so NameError
\* is raised in place of the write
TSL_step_width ==
    \E step \in StepWidths, answer \in UnitAnswers :
        Object_call("tsl_controller",
            IF TSL_wavelength_unit(answer) = "THz"
            THEN Called("step_width", <<step>>,
                        << TQ(":WAV:UNIT?", answer) >>, <<>>, "NameError",
                        Result("None", <<>>))
            ELSE Called("step_width", <<step>>,
                        << TQ(":WAV:UNIT?", answer),
                           TW(":WAV:SWE:STEP", <<step>>) >>,
                        <<>>, "none", Result("None", <<>>)))

NextTSL ==
    \/ TSL_set_step_width
    \/ TSL_step_width

(* mpm_instrument/logg_data_lan.py *)

\* line 33: count * 4 + (2 + 1 + int(math.log10(count))) + 1
ExpectedSizeLan(c) == c * 4 + (2 + 1 + IntLog10(c)) + 1

\* lines 24-38: LOGN? query, expected size, LOGG? 0,1 write; math.log10
\* raises ValueError for a count of 0
logg_data_lan ==
    /\ variant = "logg_data_lan"
    /\ pc = "logg_data_lan"
    /\ \E c \in 0..MaxCount :
          /\ count' = c
          /\ IF c = 0
             THEN /\ wire' = wire \o << MQ("LOGN?", <<c>>) >>
                  /\ err' = "ValueError"
                  /\ pc' = "raised"
                  /\ UNCHANGED expected_size
             ELSE /\ expected_size' = ExpectedSizeLan(c)
                  /\ wire' = wire \o << MQ("LOGN?", <<c>>),
                                        MW("LOGG?", <<0, 1>>) >>
                  /\ pc' = "logg_data_lan_read"
                  /\ UNCHANGED err
    /\ UNCHANGED <<handles, facade, caught>>
    /\ UNCHANGED <<variant, cfg, polls, meter_stat, scan_status, status,
                   response, values>>

\* line 41: read_bytes(expected_size) returns that many bytes of what the
\* meter sends, the block of the count just reported and what follows it,
\* or times out when fewer arrive
logg_data_lan_read ==
    /\ pc = "logg_data_lan_read"
    /\ wire' = wire \o << MRB(expected_size) >>
    /\ \E extra \in 0..MaxExtra :
          IF Len(MeterStream(count, extra)) < expected_size
          THEN /\ err' = "VisaIOError"
               /\ pc' = "raised"
               /\ UNCHANGED response
          ELSE /\ response' = SubSeq(MeterStream(count, extra), 1,
                                     expected_size)
               /\ pc' = "logg_data_lan_decode"
               /\ UNCHANGED err
    /\ UNCHANGED <<handles, facade, caught>>
    /\ UNCHANGED <<variant, cfg, polls, meter_stat, scan_status, status,
                   count, expected_size, values>>

\* lines 44-47
logg_data_lan_decode ==
    /\ pc = "logg_data_lan_decode"
    /\ IF from_ieee_block(response).ok
       THEN /\ values' = from_ieee_block(response).vals
            /\ pc' = "done"
            /\ UNCHANGED err
       ELSE /\ err' = "ValueError"
            /\ pc' = "raised"
            /\ UNCHANGED values
    /\ UNCHANGED <<handles, facade, caught>>
    /\ UNCHANGED <<variant, cfg, wire, polls, meter_stat, scan_status,
                   status, count, expected_size, response>>

NextLan ==
    \/ logg_data_lan
    \/ logg_data_lan_read
    \/ logg_data_lan_decode

(* simple_sme.py, the step size of main *)

\* step sizes are counted in 1/PerNm nm: float(speed) / 20000 of a whole
\* speed is that many of them
PerNm == 20000

\* the literals of lines 147-150 in that unit: 0.001, 0.002, 10.001, 10.000
StepFloor == 20
StepAtFloor == 40
StepCeiling == 200020
StepAtCeiling == 200000

\* scan speeds entered, in nm/s: around both tests of lines 147 and 149
Speeds == {0, StepFloor, StepFloor + 1, StepAtCeiling, StepAtCeiling + 1,
           StepCeiling, StepCeiling + 1}

\* lines 146-150
calculated_step_size(speed) ==
    IF speed <= StepFloor THEN StepAtFloor
    ELSE IF speed > StepCeiling THEN StepAtCeiling
    ELSE speed

\* main lines 140-150: the inputs are read and the step size is computed
main_step_size ==
    /\ variant = "simple_sme"
    /\ pc = "main_inputs"
    /\ cfg' = [cfg EXCEPT !.step = calculated_step_size(cfg.speed)]
    /\ pc' = "configure_tsl"
    /\ UNCHANGED <<handles, facade, caught>>
    /\ UNCHANGED <<variant, wire, polls, meter_stat, scan_status, status,
                   count, expected_size, response, values, err>>

\* an object newly constructed on an open instance, or a script at its start
InitDriver ==
    /\ variant \in Drivers
    /\ cfg \in [start : {1}, stop : {MaxWavelength}, step : {0},
                is_mpm_215 : {FALSE}, display_logging_status : {TRUE},
                speed : Speeds]
    /\ (variant # "simple_sme" => cfg.speed = 0)
    /\ pc = DriverEntry(variant)
    /\ wire = <<>>
    /\ polls = 0
    /\ meter_stat = 1
    /\ scan_status = 0
    /\ status = 0
    /\ count = 0
    /\ expected_size = 0
    /\ response = <<>>
    /\ values = <<>>
    /\ err = "none"
    /\ tools = <<>>
    /\ tool = 1
    /\ TSL = (IF variant = "simple_sme" THEN 1 ELSE None)
    /\ MPM = (IF variant = "simple_sme" THEN 2 ELSE None)
    /\ opened = ({TSL, MPM} \ {None})
    /\ caught = "none"
    /\ _power_mode_for_each_channel = <<>>
    /\ call = NoCall
    /\ calls = 0

NextDriver == NextPCU \/ NextTSL \/ NextLan \/ main_step_size

DriverSpec == InitDriver /\ [][NextDriver]_vars

----------------------------------------------------------------------------
(* Views of the recorded traffic *)

OnDevice(d) == SelectSeq(wire, LAMBDA e : e.dev = d)
tsl == OnDevice("tsl")
mpm == OnDevice("mpm")

IsWrite(e, names) == e.op = "write" /\ e.cmd \in names
IsQuery(e, names) == e.op = "query" /\ e.cmd \in names

IsStat(e) == e.dev = "mpm" /\ IsQuery(e, {"STAT?"})
IsSoft(e) == e.dev = "tsl" /\ IsWrite(e, {"WAV:SWE:SOFT", ":WAV:SWE:SOFT"})
IsMeas(e) == e.dev = "mpm" /\ IsWrite(e, {"MEAS"})
IsStandby(e) == /\ e.dev = "tsl"
                /\ IsQuery(e, {"WAV:SWE?", ":WAV:SWE?"})
                /\ e.resp = <<3>>
IsOpc(e) == IsQuery(e, {"*OPC?"})
IsFetch(e) == e.dev = "mpm" /\ e.cmd \in {"LOGN?", "LOGG?"}

NumStat == Cardinality({i \in DOMAIN wire : IsStat(wire[i])})

\* the steps of each script that follow its measurement wait
\* (a script may also end before its sweep, when an instrument is missing)
AfterWait ==
    \/ pc \in {"get_data", "get_data_read", "get_data_decode", "fetch_data",
               "SME_perform_scan_final"}
    \/ /\ pc \in {"done", "raised"}
       /\ \E i \in DOMAIN wire : IsSoft(wire[i])

\* the steps of each script that follow the software trigger
AfterTrigger ==
    \/ AfterWait
    \/ pc \in {"run_sweep_stat", "run_sweep_stat_sleep", "run_sweep_stat_query",
               "SME_perform_scan_stat", "SME_perform_scan_stat_sleep",
               "perform_sweep_stat", "perform_sweep_stat_sleep"}

\* get_data has computed the size of its read
SizeComputed ==
    /\ variant = "sme_for_mpm_215"
    /\ pc \in {"get_data_read", "get_data_decode", "done"}

----------------------------------------------------------------------------
(* Claims *)

\* C1: for every reported count >= 1 the expected_size of get_data equals the
\* byte length of the IEEE-488.2 block that carries count 4-byte samples.
C1_ExpectedSizeIsBlockLength ==
    (SizeComputed /\ count >= 1) => expected_size = Len(IEEEBlock(count))

\* C2: get_data returns a sample sequence whose length equals the count
\* reported by LOGN?, whatever block the meter sends.
C2_ReturnedLengthIsCount ==
    (variant = "sme_for_mpm_215" /\ pc = "done") => Len(values) = count

\* C3: every polling loop ends after a bounded number of polls, so each
\* workflow eventually ends (normally or with an error).
C3_PollingLoopsEnd ==
    (variant \in Workflows) => <>(pc \in {"done", "raised"})

\* C4: once a STAT? poll has reported -1 the workflow fails and neither
\* LOGN? nor LOGG? is issued.
C4_AbortedNeverFetches ==
    (\E i \in DOMAIN wire : IsStat(wire[i]) /\ wire[i].resp[1] = -1)
        => /\ pc # "done"
           /\ \A j \in DOMAIN wire : ~IsFetch(wire[j])

\* C5 as stated: no STAT? query follows a STAT? response that reported the
\* measurement completed.
C5_NoStatAfterCompleted ==
    \A i \in DOMAIN wire :
        (IsStat(wire[i]) /\ wire[i].resp[1] = 1)
            => \A j \in DOMAIN wire : j > i => ~IsStat(wire[j])

\* C5 as amended: the measurement wait is left exactly once, on a
\* loop-condition response whose status is not 0; after it has been left no
\* STAT? query is issued, except the one final status read of
\* SME.perform_scan.
C5_WaitLeftOnce ==
    /\ [](AfterWait => status # 0)
    /\ [][AfterWait =>
            /\ AfterWait'
            /\ NumStat' = NumStat +
                 (IF pc = "SME_perform_scan_final" THEN 1 ELSE 0)]_vars

C5_Witness ==
    /\ variant = "sme_operation"
    /\ pc = "done"
    /\ status = 1
    /\ \E i \in DOMAIN wire : IsStat(wire[i]) /\ wire[i].resp[1] = 0

\* C6: with start wavelength >= stop wavelength no write command reaches the
\* laser or the meter.
C6_NoWritesOnBadConfig ==
    cfg.start >= cfg.stop => \A i \in DOMAIN wire : wire[i].op # "write"

\* C7: the software trigger is written exactly once per sweep, and only after
\* MEAS has been written to the meter and a WAV:SWE? query has returned 3.
C7_TriggerOnceAfterMeasAndStandby ==
    LET soft == {i \in DOMAIN wire : IsSoft(wire[i])}
    IN  /\ Cardinality(soft) <= 1
        /\ AfterTrigger => Cardinality(soft) = 1
        /\ \A i \in soft :
              /\ \E j \in 1..(i - 1) : IsMeas(wire[j])
              /\ \E j \in 1..(i - 1) : IsStandby(wire[j])

C7_Witness ==
    /\ pc = "done"
    /\ \E i \in DOMAIN wire :
          /\ IsSoft(wire[i])
          /\ \E j \in 1..(i - 1) :
                wire[j].dev = "tsl" /\ wire[j].op = "query" /\ wire[j].resp = <<4>>

\* C8: POW:STAT 1 is written exactly when POW:STAT? reported 0; after it no
\* laser command other than *OPC? is sent until *OPC? has returned non-zero;
\* with the output already on neither POW:STAT 1 nor *OPC? is sent.
C8_OutputEnableWaitsForOpc ==
    LET t == tsl
        on == {i \in DOMAIN t : IsWrite(t[i], {"POW:STAT"})}
        off == \E i \in DOMAIN t :
                  IsQuery(t[i], {"POW:STAT?"}) /\ t[i].resp = <<0>>
    IN  /\ off <=> on # {}
        /\ Cardinality(on) <= 1
        /\ ~off => \A i \in DOMAIN t : ~IsOpc(t[i])
        /\ \A i \in on : \A j \in (i + 1)..Len(t) :
              \/ IsOpc(t[j])
              \/ \E k \in (i + 1)..(j - 1) :
                    IsOpc(t[k]) /\ t[k].resp # <<0>>

C8_Witness ==
    LET t == tsl
    IN  /\ \E i \in DOMAIN t : IsWrite(t[i], {"POW:STAT"})
        /\ \E i \in DOMAIN t : IsOpc(t[i]) /\ t[i].resp = <<0>>
        /\ \E i \in DOMAIN t : IsWrite(t[i], {"WAV:SWE:STAR"})

\* C9: in each workflow, on the laser *RST and the POW:STAT? check precede
\* every sweep parameter write; on the meter a WMOD write precedes the WSET
\* write.
C9_ConfigurationOrder ==
    LET t == tsl
        m == IF variant \in Workflows THEN mpm ELSE <<>>
    IN  /\ \A j \in DOMAIN t :
              IsWrite(t[j], {"WAV:SWE:STAR", "WAV:SWE:STOP", "WAV:SWE:SPE",
                             "TRIG:OUTP:STEP"})
                => /\ \E i \in 1..(j - 1) : IsWrite(t[i], {"*RST"})
                   /\ \E i \in 1..(j - 1) : IsQuery(t[i], {"POW:STAT?"})
        /\ \A j \in DOMAIN m :
              IsWrite(m[j], {"WSET"})
                => \E i \in 1..(j - 1) :
                      IsWrite(m[i], {"WMOD SWEEP1", "WMOD SWEEP2"})

C9_Witness ==
    LET t == tsl
        m == mpm
    IN  /\ \E i \in DOMAIN t : IsWrite(t[i], {"TRIG:OUTP:STEP"})
        /\ \E i \in DOMAIN m : IsWrite(m[i], {"WSET"})

\* the traffic of get_data: what follows the last STAT? query
GetDataTraffic ==
    LET stats == {i \in DOMAIN wire : IsStat(wire[i])}
        last == CHOOSE i \in stats : \A j \in stats : j <= i
    IN  SubSeq(wire, last + 1, Len(wire))

Shape(e) == <<e.dev, e.op, e.cmd>>

GetDataOrder ==
    << <<"mpm", "query", "LOGN?">>, <<"mpm", "write", "LOGG?">>,
       <<"mpm", "read_bytes", "">> >>

\* C10: get_data sends one LOGN? query, then one LOGG? write, then one
\* read_bytes of expected_size bytes and nothing else; the block is decoded
\* only after that read has returned.
C10_GetDataOrder ==
    (variant = "sme_for_mpm_215" /\ AfterWait) =>
        LET t == GetDataTraffic
            shapes == [i \in DOMAIN t |-> Shape(t[i])]
        IN  /\ Len(t) <= 3
            /\ shapes = SubSeq(GetDataOrder, 1, Len(t))
            /\ pc = "get_data" => Len(t) = 0
            /\ pc = "get_data_read" => Len(t) = 2
            /\ pc \in {"get_data_decode", "done"} => Len(t) = 3
            /\ pc = "raised" => Len(t) \in {1, 3}
            /\ Len(t) = 3 => t[3].args = <<count * 4 + 3 + IntLog10(count)>>
            /\ Len(t) < 3 => response = <<>>
            /\ pc # "done" => values = <<>>

C10_Witness ==
    /\ variant = "sme_for_mpm_215"
    /\ pc = "done"
    /\ count >= 1
    /\ Len(values) = count

----------------------------------------------------------------------------
(* Error handling of the fetch *)

\* the LOGN? queries of get_data that answered zero
ZeroCountAnswered ==
    \E i \in DOMAIN wire :
        /\ wire[i].dev = "mpm"
        /\ IsQuery(wire[i], {"LOGN?"})
        /\ wire[i].resp = <<0>>

\* C11: a point count of 0 returned by LOGN? is special-cased and not handed
\* to the logarithm, so get_data does not end in a math domain error.
C11_ZeroCountNoDomainError ==
    (variant = "sme_for_mpm_215" /\ ZeroCountAnswered) =>
        (err = "none" /\ pc # "raised")

\* payload bytes the header of a block announces, and those that follow it
PayloadDeclared(block) ==
    ParseInt(Slice(block, 2, 2 + (block[2] - 48)))
PayloadPresent(block) == Len(block) - 2 - (block[2] - 48)

\* a block whose header is whole and whose payload is not
Truncated(block) ==
    /\ Len(block) >= 3
    /\ block[1] = 35
    /\ PayloadPresent(block) >= 0
    /\ PayloadPresent(block) < PayloadDeclared(block)

\* C12: when fewer payload bytes arrive than the block header declares, the
\* fetch of the logging data raises an error and returns no partial data,
\* both in get_data and in MPM.get_logging_data.
C12_TruncatedBlockRaises ==
    /\ (variant = "sme_for_mpm_215" /\ Truncated(response)) => pc # "done"
    /\ (call.name = "get_logging_data" /\ Truncated(call.recv[1]))
          => call.raised # "none"

\* C13: every error raised while the logging data is fetched reaches the
\* caller as an error: a fetch in which an exception occurred does not end
\* in a normal return (fetch_data, MPM.get_logging_data, get_data).
C13_FetchErrorsReachCaller ==
    /\ (variant \in {"simple_sme", "sme_for_mpm_215"} /\ caught # "none")
          => pc = "raised"
    /\ (call.name = "get_logging_data" /\ ~from_ieee_block(call.recv[1]).ok)
          => call.raised # "none"

\* C14: for every integer code the meter answers to ERR?, also one that the
\* ErrorCode table does not hold, the error accessor of the MPM object returns
\* a result and does not raise.
C14_ErrorAccessorNeverRaises ==
    call.name = "error" =>
        /\ call.raised = "none"
        /\ call.result.kind = "pair"
        /\ call.result.val = call.sent[1].resp

\* C15: the setter of sweep_wavelength_and_step writes exactly one
\* 'WSET start,stop,step' when 1250 <= start < stop <= 1630 and
\* 0.001 <= step <= 10 (steps counted in 0.001 nm), and otherwise raises
\* ValueError and writes nothing.
C15_WsetWrittenIffValid ==
    [][(calls' = calls + 1 /\ call'.name = "set_sweep_wavelength_and_step") =>
          LET start == call'.args[1]
              stop == call'.args[2]
              step == call'.args[3]
          IN  IF /\ 1250 <= start /\ start < stop /\ stop <= 1630
                 /\ 1 <= step /\ step <= 10000
              THEN /\ wire' = wire \o << MW("WSET", <<start, stop, step>>) >>
                   /\ call'.raised = "none"
              ELSE /\ wire' = wire
                   /\ call'.raised = "ValueError"]_vars

C15_Witness ==
    /\ call.name = "set_sweep_wavelength_and_step"
    /\ call.raised = "none"
    /\ Len(wire) = 2
    /\ wire[2] = MW("WSET", <<1250, 1630, 10000>>)
    /\ wire[1] = MW("WSET", <<1250, 1630, 1>>)

----------------------------------------------------------------------------
(* Instrument handles *)

\* C16: when a run of main has ended, by completing or by a fatal error,
\* every instrument handle it opened has been closed.
C16_HandlesReleasedAtEnd ==
    (variant \in {"sme_for_mpm_215", "simple_sme"} /\ pc \in {"done", "raised"})
        => opened = {}

----------------------------------------------------------------------------
(* The MPM object *)

\* the getters of the MPM object that the model calls
Getters == {"error", "power_mode", "power_mode_for_each_channel"}

\* C17: the MPM object keeps no local cache: every getter that returns has
\* queried the device in that same call and returns what the device answered.
C17_GettersQueryTheDevice ==
    (call.name \in Getters /\ call.raised = "none") =>
        /\ Len(call.sent) = 1
        /\ call.sent[1].op = "query"
        /\ call.result.val = call.sent[1].resp

----------------------------------------------------------------------------
(* Which handle a command goes to *)

\* the commands the scripts address to the laser
LaserCommands ==
    {"*CLS", "*OPC?", "*RST", ":POW:SHUT", ":TRIG:OUTP", ":WAV:SWE",
     ":WAV:SWE:SOFT", ":WAV:SWE?", "AM:STAT", "COHCtrl", "POW", "POW:ATT:AUT",
     "POW:SHUT", "POW:STAT", "POW:STAT?", "POW:UNIT", "SYST:COMM:COD",
     "SYST:COMM:GPIB:DEL", "TRIG:INP:ACT", "TRIG:INP:EXT", "TRIG:INP:STAN",
     "TRIG:OUTP", "TRIG:OUTP:ACT", "TRIG:OUTP:SETT", "TRIG:OUTP:STEP", "WAV",
     "WAV:SWE", "WAV:SWE:MOD", "WAV:SWE:SOFT", "WAV:SWE:SPE", "WAV:SWE:STAR",
     "WAV:SWE:STOP", "WAV:SWE?", "WAV:UNIT"}

\* the commands addressed to the meter; WAV exists on both instruments
MeterCommands ==
    {"AUTO", "AUTO?", "DAUTO", "ERR?", "LEV", "LOGG?", "LOGN", "LOGN?",
     "MEAS", "SPE", "STAT?", "STOP", "TRIG", "UNIT", "WAV", "WMOD SWEEP1",
     "WMOD SWEEP2", "WMOD?", "WSET", ""}

\* C18: once the instruments are detected the laser handle and the meter
\* handle are two different opened resources, every laser command goes out
\* on the laser handle and every meter command on the meter handle.
C18_HandlesApartAndCommandsRouted ==
    /\ (TSL # None /\ MPM # None) => TSL # MPM
    /\ ({TSL, MPM} \ {None}) \subseteq opened
    /\ \A i \in DOMAIN wire :
          /\ wire[i].dev \in {"tsl", "mpm", "buffer"}
          /\ wire[i].dev = "tsl" => (TSL # None /\ wire[i].cmd \in LaserCommands)
          /\ wire[i].dev = "mpm" => (MPM # None /\ wire[i].cmd \in MeterCommands)
          /\ wire[i].dev = "buffer" => wire[i].cmd = "*IDN?"
          /\ wire[i].cmd \in (LaserCommands \ MeterCommands)
                => wire[i].dev = "tsl"
          /\ wire[i].cmd \in (MeterCommands \ LaserCommands)
                => wire[i].dev = "mpm"

C18_Witness ==
    /\ variant = "simple_sme"
    /\ TSL = 2 /\ MPM = 1
    /\ pc = "done"
    /\ \E i \in DOMAIN wire : IsSoft(wire[i])
    /\ \E i \in DOMAIN wire : IsMeas(wire[i])

----------------------------------------------------------------------------
(* The wait for standby *)

IsStart(e) == /\ e.dev = "tsl"
              /\ IsWrite(e, {"WAV:SWE", ":WAV:SWE"})
              /\ e.args = <<1>>
IsSweepQuery(e) == e.dev = "tsl" /\ IsQuery(e, {"WAV:SWE?", ":WAV:SWE?"})

\* the laser traffic after the first start-sweep write and before the
\* software trigger (or up to now, when the trigger is not yet sent)
StandbyWait ==
    LET t == tsl
        starts == {i \in DOMAIN t : IsStart(t[i])}
        softs == {i \in DOMAIN t : IsSoft(t[i])}
        first == CHOOSE i \in starts : \A j \in starts : i <= j
        last == IF softs = {} THEN Len(t)
                ELSE (CHOOSE i \in softs : \A j \in softs : i <= j) - 1
    IN  IF starts = {} THEN <<>> ELSE SubSeq(t, first + 1, last)

\* C19 as stated: between the first start-sweep write and the software
\* trigger the laser receives nothing but WAV:SWE? queries, so start-sweep is
\* sent once per sweep.
C19_OnlyPollsBeforeTrigger ==
    LET w == StandbyWait
    IN  \A i \in DOMAIN w : IsSweepQuery(w[i])

\* C19 amended: in that interval the laser receives nothing but WAV:SWE?
\* queries from run_sweep and perform_sweep, which send start-sweep once;
\* SME.perform_scan sends nothing but WAV:SWE? queries and start-sweep
\* writes, one more start-sweep after every status other than 3.
C19_StartSweepPerScript ==
    LET w == StandbyWait
    IN  IF variant # "sme_operation"
        THEN \A i \in DOMAIN w : IsSweepQuery(w[i])
        ELSE /\ Len(w) >= 1 => IsSweepQuery(w[1])
             /\ \A i \in DOMAIN w :
                   /\ IsSweepQuery(w[i]) \/ IsStart(w[i])
                   /\ IsStart(w[i]) =>
                         /\ i < Len(w)
                         /\ IsSweepQuery(w[i + 1])
                         /\ w[i - 1].resp # <<3>>
                   /\ (IsSweepQuery(w[i]) /\ i < Len(w)) =>
                         /\ IsStart(w[i + 1])
                         /\ w[i].resp # <<3>>

C19_Witness ==
    LET w == StandbyWait
    IN  /\ variant = "sme_operation"
        /\ \E i \in DOMAIN wire : IsSoft(wire[i])
        /\ Len(w) = 5
        /\ IsStart(w[2]) /\ IsStart(w[4])

----------------------------------------------------------------------------
(* The measurement in progress *)

\* the setup commands the meter refuses while it measures (line 629)
SetupCommands ==
    {"AVG", "LEV", "LOGN", "AUTO", "WAV", "WMOD SWEEP1", "WMOD SWEEP2",
     "WSET", "SPE", "UNIT"}

\* the meter traffic that follows the MEAS write, up to and including the
\* first STAT? response whose status is not 0
MeasurementInProgress ==
    LET m == mpm
        meas == {i \in DOMAIN m : IsMeas(m[i])}
        first == CHOOSE i \in meas : \A j \in meas : i <= j
        over == {j \in DOMAIN m : j > first /\ IsStat(m[j]) /\ m[j].resp[1] # 0}
        last == IF over = {} THEN Len(m)
                ELSE CHOOSE j \in over : \A k \in over : j <= k
    IN  IF meas = {} THEN <<>> ELSE SubSeq(m, first + 1, last)

\* C20: between the MEAS write and the first STAT? response whose status is
\* not 0 the meter receives STAT? queries only; no setup command (AVG, LEV,
\* LOGN, AUTO, WAV, WMOD, WSET, SPE, UNIT) is written meanwhile.
C20_OnlyStatWhileMeasuring ==
    LET p == MeasurementInProgress
    IN  \A i \in DOMAIN p :
            /\ IsStat(p[i])
            /\ ~IsWrite(p[i], SetupCommands)
            /\ i < Len(p) => p[i].resp[1] = 0

C20_Witness ==
    LET p == MeasurementInProgress
    IN  /\ variant = "sme_for_mpm_215"
        /\ pc = "get_data_read"
        /\ Len(p) = 3
        /\ p[1].resp[1] = 0 /\ p[2].resp[1] = 0 /\ p[3].resp[1] = 1

----------------------------------------------------------------------------
(* The meter settings of SME.configure_mpm *)

\* the steps of SME that come before the end of configure_mpm
SMEConfiguring ==
    pc \in {"SME_configure_tsl", "SME_configure_tsl_opc",
            "SME_configure_tsl_opc_sleep", "SME_configure_tsl_settings",
            "SME_configure_mpm", "SME_configure_mpm_wmod",
            "SME_configure_mpm_wmod_again", "SME_configure_mpm_settings"}

\* n is int(q / step) for step > 0: the quotient truncated towards zero
IsTruncatedQuotient(n, q, step) ==
    IF q >= 0 THEN n * step <= q /\ q < (n + 1) * step
    ELSE (n - 1) * step < q /\ q <= n * step

\* C21: SME.configure_mpm selects the meter settings from is_mpm_215 alone.
\* When it is True the mode written is SWEEP2, AUTO 1 is written and LOGN
\* never is; when it is False the mode written is SWEEP1, AUTO 1 never is and
\* LOGN is written once, as the last command of the configuration, with
\* int((stop - start) / step + 1).
C21_MeterSettingsFollowModule ==
    variant = "sme_operation" =>
        LET m == mpm
            modes == {i \in DOMAIN m :
                         IsWrite(m[i], {"WMOD SWEEP1", "WMOD SWEEP2"})}
            auto1 == {i \in DOMAIN m :
                         IsWrite(m[i], {"AUTO"}) /\ m[i].args = <<1>>}
            logn == {i \in DOMAIN m : IsWrite(m[i], {"LOGN"})}
        IN  IF cfg.is_mpm_215
            THEN /\ \A i \in modes : m[i].cmd = "WMOD SWEEP2"
                 /\ logn = {}
                 /\ ~SMEConfiguring => (auto1 # {} /\ modes # {})
            ELSE /\ \A i \in modes : m[i].cmd = "WMOD SWEEP1"
                 /\ auto1 = {}
                 /\ SMEConfiguring => logn = {}
                 /\ ~SMEConfiguring =>
                       /\ modes # {}
                       /\ Cardinality(logn) = 1
                       /\ \A i \in logn :
                             /\ Len(m[i].args) = 1
                             /\ IsTruncatedQuotient(
                                    m[i].args[1],
                                    (cfg.stop - cfg.start) + cfg.step,
                                    cfg.step)
                             /\ \A j \in DOMAIN m :
                                   j > i => (IsMeas(m[j]) \/ IsStat(m[j]))
                             /\ \A j \in DOMAIN m : j < i => ~IsMeas(m[j])

C21_Witness ==
    /\ variant = "sme_operation"
    /\ ~cfg.is_mpm_215
    /\ cfg.stop > cfg.start
    /\ pc = "SME_perform_scan"
    /\ mpm[Len(mpm)] = MW("LOGN", <<cfg.stop - cfg.start + 1>>)

----------------------------------------------------------------------------
(* The mode check of the meter configuration *)

\* the mode the configuration asks for
RequestedMode == IF variant = "sme_operation" THEN measurement_mode(cfg)
                 ELSE "SWEEP2"

\* what the configuration sends to the meter up to the end of its mode check
UpToModeCheck ==
    {"STOP", "UNIT", "WMOD SWEEP1", "WMOD SWEEP2", "WMOD?"}
      \cup (IF variant = "sme_operation"
            THEN {"AUTO", "LEV", "TRIG", "WSET", "SPE"} ELSE {})

----------------------------------------------------------------------------
(* Termination of SME.perform_scan *)

\* C23: when the laser eventually answers WAV:SWE? with 3 and the meter
\* eventually answers STAT? with a status other than 0, SME.perform_scan,
\* once started, ends, whatever display_logging_status is.
C23_PerformScanTerminates ==
    (pc = "SME_perform_scan") ~> (pc = "done")

C23_Witness ==
    /\ variant = "sme_operation"
    /\ cfg.display_logging_status
    /\ pc = "done"
    /\ \E i \in DOMAIN wire :
          IsSweepQuery(wire[i]) /\ wire[i].resp # <<3>>
    /\ \E i \in DOMAIN wire :
          /\ i + 1 \in DOMAIN wire
          /\ IsStat(wire[i]) /\ wire[i].resp[1] = 0
          /\ IsStat(wire[i + 1]) /\ wire[i + 1].resp[1] # 0


\* the calls that read the PCU's error queue
IsSystemError(c) == c.name \in {"get_system_error", "system_error"}

\* C24: get_system_error (and the system_error property) never raises on the
\* text returned by :SYST:ERR?: for a code of the ErrorCode table it returns
\* '<code>: <description of that code>', for every other response
\* '<code>: Unknown error code'.
C24_SystemErrorNeverRaises ==
    IsSystemError(call) =>
        LET code == strip(call.sent[1].resp)
        IN  /\ call.raised = "none"
            /\ call.result.kind = "str"
            /\ call.result.val[1] = code
            /\ call.result.val[2] = ": "
            /\ (code \in PCU_ErrorCode =>
                    /\ call.result.val[3] = PCU_get_description(code)
                    /\ call.result.val[3] \notin {"Unknown error code",
                                                  "ValueError"})
            /\ (code \notin PCU_ErrorCode =>
                    call.result.val[3] = "Unknown error code")

\* a code of the table sent with line ends around it was described, then a
\* text outside the table was answered with the generic description
C24_Witness ==
    /\ IsSystemError(call)
    /\ Len(wire) = 2
    /\ wire[1].cmd = ":SYST:ERR?"
    /\ strip(wire[1].resp) \in PCU_ErrorCode
    /\ strip(wire[1].resp) # wire[1].resp
    /\ strip(wire[2].resp) \notin PCU_ErrorCode
    /\ call.result.val[3] = "Unknown error code"


\* the LOGG? commands a call sent, as query or as write
LoggSent(c) == SelectSeq(c.sent, LAMBDA e : e.cmd = "LOGG?")

\* C25: MPM.get_logging_data sends LOGG? at most twice, the second time
\* (write, then read_raw) only when the first attempt (query_binary_values)
\* failed; it never raises; it returns the decoded values when the first
\* attempt succeeds, otherwise the raw bytes of the second, and None when
\* both fail.
C25_LoggingDataTwoAttempts ==
    call.name = "get_logging_data" =>
        LET first == from_ieee_block(call.recv[1])
        IN  /\ Len(LoggSent(call)) \in {1, 2}
            /\ call.raised = "none"
            /\ call.sent[1] = MQ("LOGG?", <<>>)
            /\ (first.ok =>
                    /\ call.sent = << MQ("LOGG?", <<>>) >>
                    /\ call.result = Result("values", first.vals))
            /\ (~first.ok =>
                    /\ call.sent = << MQ("LOGG?", <<>>), MW("LOGG?", <<>>),
                                      MRR >>
                    /\ Len(call.recv) = 2
                    /\ (call.recv[2] # <<>> =>
                            call.result = Result("bytes", call.recv[2]))
                    /\ (call.recv[2] = <<>> =>
                            call.result = Result("None", <<>>)))

\* a call whose first attempt failed on a block cut short and whose second
\* attempt returned raw bytes, after a call that decoded its block
C25_Witness ==
    /\ call.name = "get_logging_data"
    /\ calls = 2
    /\ wire[1] = MQ("LOGG?", <<>>)
    /\ Len(wire) = 4
    /\ Truncated(call.recv[1])
    /\ call.result.kind = "bytes"


\* the LAN logging script has computed its expected size
LanSizeComputed ==
    variant = "logg_data_lan"
    /\ pc \in {"logg_data_lan_read", "logg_data_lan_decode", "done",
               "raised"}
    /\ \E i \in 1..Len(wire) : wire[i].cmd = "LOGG?"

\* C26: for every count >= 1 the byte count logg_data_lan.py passes to
\* read_bytes equals the length of the IEEE block, without a terminator,
\* that carries count 4-byte samples.
C26_LanReadSizeIsBlockLength ==
    (LanSizeComputed /\ count >= 1) => expected_size = Len(IEEEBlock(count))


\* the setters of pcu_controller that the claim is about, with the largest
\* value each accepts
ControllerSetters ==
    [port_number |-> PortHigh,
     standard_event_enable_register |-> RegisterHigh,
     service_request_enable_register |-> RegisterHigh]

IsCheckedSetter(c) ==
    c.name \in DOMAIN ControllerSetters \cup {"set_port_number"}

SetterLimit(c) ==
    IF c.name = "set_port_number" THEN PortHigh ELSE ControllerSetters[c.name]

\* C27: the port_number setter of pcu_controller writes :SYST:COMM:ETH:PORT
\* only for 0 <= port <= 65535 and raises without writing otherwise, like
\* pcu_instrument.set_port_number; its *ESE and *SRE setters send a command
\* only for values 0 to 255.
C27_SettersSendOnlyInRange ==
    IsCheckedSetter(call) =>
        LET value == call.args[1]
            valid == 0 <= value /\ value <= SetterLimit(call)
        IN  /\ (call.sent # <<>> => valid)
            /\ (~valid => call.raised = "Exception")
            /\ (valid => Len(call.sent) = 1)


IsStepSetter(c) == c.name \in {"set_step_width", "step_width"}

\* C28: for each wavelength-unit response ('0' is nm, '1' is THz) and each
\* step value, the step_width setter of tsl_controller and
\* tsl_instrument.set_step_width issue the same commands: one :WAV:UNIT?
\* query followed by exactly one write, ':FREQ:SWE:STEP <step>' when the unit
\* is THz and ':WAV:SWE:STEP <step>' otherwise.
C28_StepSettersAgree ==
    (IsStepSetter(call) /\ call.sent[1].resp \in {<<"0">>, <<"1">>}) =>
        /\ Len(call.sent) = 2
        /\ call.sent[1] = TQ(":WAV:UNIT?", call.sent[1].resp)
        /\ call.sent[2] =
              IF call.sent[1].resp = <<"1">>
              THEN TW(":FREQ:SWE:STEP", <<call.args[1]>>)
              ELSE TW(":WAV:SWE:STEP", <<call.args[1]>>)


\* main of simple_sme has computed its step size
StepSizeComputed ==
    variant = "simple_sme" /\ pc = "configure_tsl" /\ "speed" \in DOMAIN cfg

\* C29: for every scan speed entered, the step size simple_sme.main computes
\* lies within the step range the meter accepts, 0.001 nm to 10 nm inclusive.
C29_StepSizeWithinMeterRange ==
    StepSizeComputed =>
        /\ WsetStepLow * PerNm <= cfg.step * 1000
        /\ cfg.step * 1000 <= WsetStepHigh * PerNm


\* an *IDN? query on a handle that initialize_instruments has just opened
IsIdentify(e) == e.dev = "buffer" /\ e.op = "query" /\ e.cmd = "*IDN?"

\* the loop of initialize_instruments is over
ScanOver == pc # "initialize_instruments" \/ tool > Len(tools)

\* C30: simple_sme.main sends no command other than *IDN? queries unless
\* both a TSL and an MPM were detected: with a handle still unset after
\* initialize_instruments it returns without a single write; and an error
\* while opening or identifying one resource does not end the scan of the
\* remaining resources.
C30_NothingSentUnlessBothDetected ==
    variant = "simple_sme" =>
        /\ (TSL = None \/ MPM = None) =>
              /\ \A i \in DOMAIN wire : IsIdentify(wire[i])
              /\ pc \in {"initialize_instruments", "done"}
        /\ ScanOver =>
              \A t \in DOMAIN tools :
                  tools[t] # "error" => \E i \in DOMAIN wire : wire[i] = IDN(t)

\* main has returned with a handle unset, after a scan in which a resource
\* failed and a later one was still identified
C30_Witness ==
    /\ variant = "simple_sme"
    /\ pc = "done"
    /\ MPM = None
    /\ Len(tools) = 2
    /\ tools[1] \in {"error", "silent"}
    /\ tools[2] = "TSL"
    /\ TSL = 2
    /\ wire[Len(wire)] = IDN(2)

====
